---- MODULE Spec2Model ----
(***************************************************************************)
(* Model of the fitness intake bot: the aiogram handlers of handlers.py,   *)
(* the asyncpg queries of database.py and the daily job of main.py.        *)
(*                                                                         *)
(* A text is a sequence of one-character strings.  SQL NULL and Python     *)
(* None are written 0 for integer columns, <<>> for text columns and       *)
(* "None" for the gender column.  Every handler is cut at its awaits on    *)
(* the database or the transport, where other tasks of the event loop may  *)
(* run; the updates of one user are handled one after the other.           *)
(***************************************************************************)
EXTENDS Integers, Sequences, FiniteSets, TLC

\* ------------------------------------------------------------------ bounds
NumUsers == 2
MaxQuestionnaires == 2
MaxUsage == 4
MaxCrashes == 1
MaxClicks == 2
MaxPromoCodes == 3
MaxLinks == 2

Users == 1..NumUsers

\* ADMIN_IDS of the environment, in the order get_admin_ids returns them.
ADMIN_IDS == <<2, 9>>

get_admin_ids == ADMIN_IDS

Admins == {ADMIN_IDS[i] : i \in 1..Len(ADMIN_IDS)}

Min(a, b) == IF a < b THEN a ELSE b

\* ------------------------------------------------------------------- texts
LowerAlpha == <<"a","b","c","d","e","f","g","h","i","j","k","l","m",
                "n","o","p","q","r","s","t","u","v","w","x","y","z">>
UpperAlpha == <<"A","B","C","D","E","F","G","H","I","J","K","L","M",
                "N","O","P","Q","R","S","T","U","V","W","X","Y","Z">>

Whitespace == {" ", "\t", "\n"}

UpperChar(c) ==
    IF \E i \in 1..26 : LowerAlpha[i] = c
    THEN UpperAlpha[CHOOSE i \in 1..26 : LowerAlpha[i] = c]
    ELSE c

\* str.upper() and SQL UPPER()
Upper(t) == [i \in 1..Len(t) |-> UpperChar(t[i])]

LowerChar(c) ==
    IF \E i \in 1..26 : UpperAlpha[i] = c
    THEN LowerAlpha[CHOOSE i \in 1..26 : UpperAlpha[i] = c]
    ELSE c

\* str.lower() and SQL LOWER()
Lower(t) == [i \in 1..Len(t) |-> LowerChar(t[i])]

\* str.strip(): drops the leading and the trailing whitespace
Strip(t) ==
    LET keep == {i \in 1..Len(t) : t[i] \notin Whitespace}
    IN  IF keep = {} THEN <<>>
        ELSE LET lo == CHOOSE i \in keep : \A j \in keep : i <= j
                 hi == CHOOSE i \in keep : \A j \in keep : j <= i
             IN  SubSeq(t, lo, hi)

\* ------------------------------------------------------------------- state
VARIABLES
    users,              \* table users: the user_id values present
    buttons,            \* the callback buttons of the messages sent to each user
    questionnaires,     \* table questionnaires; the index of a row is its id
    promo_codes,        \* table promo_codes; the index of a row is its id
    promo_code_usage,   \* table promo_code_usage, in insertion order
    fsm_state,          \* MemoryStorage: the FSM state of each user
    fsm_data,           \* MemoryStorage: the FSM data of each user
    task,               \* the handler task of each user: position and locals
    sweep,              \* the task of the job send_daily_questionnaires
    sent,               \* bot.send_message calls to the admins, per questionnaire
    reply,              \* the answer a handler sends to a user in the latest step
    crashes,            \* process restarts so far
    completions,        \* history: completions of a conversation that was open
    last_attach,        \* history: the last direct call of the attach method
    user_columns,       \* table users: the other columns of the row of a user_id
    link_stats,         \* table link_stats, in insertion order
    start_links,        \* table start_links; the index of a row is its id
    start_link_clicks,  \* table start_link_clicks; the index of a row is its id
    created             \* history: the calls of get_or_create_user for each
                        \* user that returned created = True

vars == <<users, buttons, questionnaires, promo_codes, promo_code_usage, fsm_state,
          fsm_data, task, sweep, sent, reply, crashes, completions, last_attach,
          user_columns, link_stats, start_links, start_link_clicks, created>>

\* The FSM data with no key set: the answers of the form, and the keys of the
\* dialogs of the admin panel (promo_code, description, promo_id, editing_field,
\* link_slug, link_id).
NoData ==
    [gender |-> "None", age |-> 0, weight |-> 0, workouts_per_week |-> 0,
     diet |-> <<>>, problem_or_injury |-> <<>>,
     promo_code |-> <<>>, description |-> <<>>, promo_id |-> 0,
     editing_field |-> "None", link_slug |-> <<>>, link_id |-> 0]

IdleTask ==
    [pc |-> "idle", text |-> <<>>, promo |-> <<>>, questionnaire_id |-> 0,
     promo_usages |-> <<>>, attached_count |-> 0, questionnaire |-> <<>>,
     text_to_send |-> <<>>, admin |-> 0, direct |-> FALSE, at_start |-> <<>>,
     link |-> 0]

IdleSweep ==
    [pc |-> "idle", questionnaires |-> <<>>, questionnaire_ids |-> <<>>,
     text_to_send |-> <<>>, admin |-> 0, at_start |-> <<>>]

NoReply == [user_id |-> 0, kind |-> "none", description |-> <<>>]

NoAttach == [user_id |-> 0, questionnaire_id |-> 0, attached_count |-> 0,
             changed |-> FALSE, repeated |-> FALSE]

\* A row of users that is not there
NoUser ==
    [username |-> <<>>, first_name |-> <<>>, utm_source |-> <<>>,
     utm_medium |-> <<>>, utm_campaign |-> <<>>]

\* The row of a user that came with the plain command /start
PlainUser == [NoUser EXCEPT !.first_name = <<"n">>]

\* A row that DELETE has removed: the ids of a SERIAL column are not given
\* again.  A text message is never empty or blank, so the code of a promo code
\* and the slug of a link an operator has entered are never empty.
NoPromoCode == [code |-> <<>>, description |-> <<>>, is_single_use |-> FALSE]

NoStartLink == [slug |-> <<>>, description |-> <<>>]

NoClick == [start_link_id |-> 0, user_id |-> 0]

\* The links an operator has created; create_start_link stores slug.lower().
InitStartLinks == << [slug |-> <<"v","k">>, description |-> <<"d","3">>] >>

\* The promo codes an operator has created; create_promo_code stores UPPER(code).
InitPromoCodes ==
    << [code |-> <<"V","I","P">>, description |-> <<"d","1">>, is_single_use |-> TRUE],
       [code |-> <<"S","U","M">>, description |-> <<"d","2">>, is_single_use |-> FALSE] >>

Init ==
    /\ users = {}
    /\ buttons = [u \in Users |-> {}]
    /\ questionnaires = <<>>
    /\ promo_codes = InitPromoCodes
    /\ promo_code_usage = <<>>
    /\ fsm_state = [u \in Users |-> "None"]
    /\ fsm_data = [u \in Users |-> NoData]
    /\ task = [u \in Users |-> IdleTask]
    /\ sweep = IdleSweep
    /\ sent = [q \in 1..MaxQuestionnaires |-> [a \in Admins |-> <<>>]]
    /\ reply = NoReply
    /\ crashes = 0
    /\ completions = [u \in Users |-> 0]
    /\ last_attach = NoAttach
    /\ user_columns = [u \in Users |-> NoUser]
    /\ link_stats = <<>>
    /\ start_links = InitStartLinks
    /\ start_link_clicks = <<>>
    /\ created = [u \in Users |-> 0]

\* Every user has started the bot and has been asked the last question of the
\* form before; no form was completed and no session is left (the user went on
\* to a promo code that was not found, or the process has restarted).  The
\* keyboards of the messages sent so far stay in the chats.
Keyboards ==
    {"start_questionnaire", "cooperation", "enter_promo_code", "examples",
     "gender_male", "gender_female", "skip_diet", "skip_problem"}

InitReturning ==
    /\ users = Users
    /\ buttons = [u \in Users |-> Keyboards]
    /\ questionnaires = <<>>
    /\ promo_codes = InitPromoCodes
    /\ promo_code_usage = <<>>
    /\ fsm_state = [u \in Users |-> "None"]
    /\ fsm_data = [u \in Users |-> NoData]
    /\ task = [u \in Users |-> IdleTask]
    /\ sweep = IdleSweep
    /\ sent = [q \in 1..MaxQuestionnaires |-> [a \in Admins |-> <<>>]]
    /\ reply = NoReply
    /\ crashes = 0
    /\ completions = [u \in Users |-> 0]
    /\ last_attach = NoAttach
    /\ user_columns = [u \in Users |-> PlainUser]
    /\ link_stats = <<>>
    /\ start_links = InitStartLinks
    /\ start_link_clicks = <<>>
    /\ created = [u \in Users |-> 1]

\* --------------------------------------------------------- database.py
\* create_questionnaire: INSERT INTO questionnaires ... RETURNING id
NewQuestionnaire(user_id, data) ==
    [user_id |-> user_id, gender |-> data.gender, age |-> data.age,
     weight |-> data.weight, workouts_per_week |-> data.workouts_per_week,
     diet |-> data.diet, problem_or_injury |-> data.problem_or_injury,
     sent_to_admin |-> FALSE]

create_questionnaire(table, user_id, data) == Append(table, NewQuestionnaire(user_id, data))

\* ARRAY_AGG(pc.code) over the LEFT JOIN: the codes of the usage rows of the
\* questionnaire, one NULL when it has none.
PromoArray(usage, codes, questionnaire_id) ==
    LET rows == SelectSeq(usage, LAMBDA r : r.questionnaire_id = questionnaire_id)
    IN  IF rows = <<>> THEN << <<>> >>
        ELSE [i \in 1..Len(rows) |-> codes[rows[i].promo_code_id].code]

\* get_questionnaire_details: the row joined with its promo codes
get_questionnaire_details(table, usage, codes, questionnaire_id) ==
    [id |-> questionnaire_id,
     user_id |-> table[questionnaire_id].user_id,
     gender |-> table[questionnaire_id].gender,
     age |-> table[questionnaire_id].age,
     weight |-> table[questionnaire_id].weight,
     workouts_per_week |-> table[questionnaire_id].workouts_per_week,
     diet |-> table[questionnaire_id].diet,
     problem_or_injury |-> table[questionnaire_id].problem_or_injury,
     promo_codes |-> PromoArray(usage, codes, questionnaire_id)]

\* The ids with sent_to_admin = FALSE, newest first (ORDER BY created_at DESC).
RECURSIVE UnsentIds(_, _)
UnsentIds(table, n) ==
    IF n = 0 THEN <<>>
    ELSE IF table[n].sent_to_admin
         THEN UnsentIds(table, n - 1)
         ELSE <<n>> \o UnsentIds(table, n - 1)

\* The query with no WHERE: the questionnaires already sent as well
get_new_questionnaires_sent_too(table, usage, codes) ==
    [i \in 1..Len(table) |->
        get_questionnaire_details(table, usage, codes, Len(table) + 1 - i)]

\* The query with LIMIT 0: no row
get_new_questionnaires_none(table, usage, codes) == <<>>

\* The query with LIMIT 1: the newest unsent questionnaire alone
get_new_questionnaires_newest_only(table, usage, codes) ==
    LET ids == UnsentIds(table, Len(table))
    IN  [i \in 1..Min(Len(ids), 1) |-> get_questionnaire_details(table, usage, codes, ids[i])]

get_new_questionnaires(table, usage, codes) ==
    LET ids == UnsentIds(table, Len(table))
    IN  [i \in 1..Len(ids) |-> get_questionnaire_details(table, usage, codes, ids[i])]

SeqRange(s) == {s[i] : i \in 1..Len(s)}

\* The update written as SET sent_to_admin = (id = ANY(ids)), with no WHERE
mark_questionnaires_sent_all_rows(table, questionnaire_ids) ==
    [i \in 1..Len(table) |->
        [table[i] EXCEPT !.sent_to_admin = (i \in SeqRange(questionnaire_ids))]]

\* mark_questionnaires_sent: UPDATE ... SET sent_to_admin = TRUE WHERE id = ANY(ids)
mark_questionnaires_sent(table, questionnaire_ids) ==
    [i \in 1..Len(table) |->
        IF i \in SeqRange(questionnaire_ids)
        THEN [table[i] EXCEPT !.sent_to_admin = TRUE]
        ELSE table[i]]

\* check_promo_code comparing the text as it is: WHERE UPPER(code) = $1
check_promo_code_exact(codes, promo_code) ==
    LET hits == {i \in 1..Len(codes) : Upper(codes[i].code) = promo_code}
    IN  IF hits = {} THEN 0 ELSE CHOOSE i \in hits : \A j \in hits : i <= j

\* check_promo_code: SELECT ... WHERE UPPER(code) = UPPER($1); 0 when no row
check_promo_code(codes, promo_code) ==
    LET hits == {i \in 1..Len(codes) : /\ codes[i] # NoPromoCode
                                       /\ Upper(codes[i].code) = Upper(promo_code)}
    IN  IF hits = {} THEN 0 ELSE CHOOSE i \in hits : \A j \in hits : i <= j

UsageRow(user_id, promo_code_id, questionnaire_id) ==
    [user_id |-> user_id, promo_code_id |-> promo_code_id,
     questionnaire_id |-> questionnaire_id]

\* attach, first query: the pending usages of the user joined with promo_codes
PendingUsages(usage, codes, user_id) ==
    LET rows == SelectSeq(usage, LAMBDA r : r.user_id = user_id /\ r.questionnaire_id = 0)
    IN  [i \in 1..Len(rows) |->
            [promo_code_id |-> rows[i].promo_code_id,
             is_single_use |-> codes[rows[i].promo_code_id].is_single_use]]

\* The second query finding no row, whatever the table holds
UsedNowhere(usage, promo_id) == FALSE

\* attach, second query: a usage row of the code with a questionnaire exists
UsedInQuestionnaire(usage, promo_id) ==
    \E i \in 1..Len(usage) :
        usage[i].promo_code_id = promo_id /\ usage[i].questionnaire_id # 0

\* The INSERT with the id of the newest questionnaire in place of the one given
InsertAttachedToNewest(usage, user_id, promo_id, questionnaire_id) ==
    Append(usage, [user_id |-> user_id, promo_code_id |-> promo_id,
                   questionnaire_id |-> Len(questionnaires)])

\* attach, INSERT ... ON CONFLICT DO NOTHING: the table has no unique
\* constraint besides its serial id, so the insert never conflicts.
InsertAttached(usage, user_id, promo_id, questionnaire_id) ==
    Append(usage, UsageRow(user_id, promo_id, questionnaire_id))

\* The single-use query asking for rows with a questionnaire only
AnyUsageAttached(usage, promo_id) ==
    \E i \in 1..Len(usage) :
        usage[i].promo_code_id = promo_id /\ usage[i].questionnaire_id # 0

\* process_promo_code, single-use query: any usage row of the code exists
AnyUsage(usage, promo_id) ==
    \E i \in 1..Len(usage) : usage[i].promo_code_id = promo_id

\* The second query asking for rows with a questionnaire: IS NOT NULL
PendingExistsAttached(usage, user_id, promo_id) ==
    \E i \in 1..Len(usage) :
        /\ usage[i].user_id = user_id
        /\ usage[i].promo_code_id = promo_id
        /\ usage[i].questionnaire_id # 0

\* process_promo_code, second query: a pending row of this user and code exists
PendingExists(usage, user_id, promo_id) ==
    \E i \in 1..Len(usage) :
        /\ usage[i].user_id = user_id
        /\ usage[i].promo_code_id = promo_id
        /\ usage[i].questionnaire_id = 0

\* --------------------------------------------------------- handlers.py
\* The text built without the line of the promo codes
build_questionnaire_text_without_codes(questionnaire) ==
    [user_id |-> questionnaire.user_id,
     gender |-> questionnaire.gender,
     age |-> questionnaire.age,
     weight |-> questionnaire.weight,
     workouts_per_week |-> questionnaire.workouts_per_week,
     diet |-> questionnaire.diet,
     problem_or_injury |-> questionnaire.problem_or_injury,
     promo_codes |-> <<>>]

\* build_questionnaire_text: the fields that are set, and the promo codes
\* when the array is not empty and its first entry is not NULL.
build_questionnaire_text(questionnaire) ==
    [user_id |-> questionnaire.user_id,
     gender |-> questionnaire.gender,
     age |-> questionnaire.age,
     weight |-> questionnaire.weight,
     workouts_per_week |-> questionnaire.workouts_per_week,
     diet |-> questionnaire.diet,
     problem_or_injury |-> questionnaire.problem_or_injury,
     promo_codes |->
        IF questionnaire.promo_codes # <<>> /\ questionnaire.promo_codes[1] # <<>>
        THEN SelectSeq(questionnaire.promo_codes, LAMBDA pc : pc # <<>>)
        ELSE <<>>]

Answer(u, kind, description) ==
    reply' = [user_id |-> u, kind |-> kind, description |-> description]

Say(u, kind) == Answer(u, kind, <<>>)

\* A step that sends nothing to a user
Silent == reply' = NoReply

Idle(u) == task[u].pc = "idle"

\* An update of a user reaches a handler when the previous one has returned
Receives(u) == u \in users /\ Idle(u)

\* A callback query carries the callback_data of a button of a message the bot
\* has sent to the user; the code deletes no message and edits no keyboard.
Pressed(u, data) == Idle(u) /\ data \in buttons[u]

\* reply_markup: the buttons of the keyboard sent with an answer
Shows(u, keyboard) == buttons' = [buttons EXCEPT ![u] = @ \cup keyboard]

\* get_main_menu_keyboard
get_main_menu_keyboard ==
    {"start_questionnaire", "cooperation", "enter_promo_code", "examples"}

\* str.split(sep) of a text
RECURSIVE Split(_, _)
Split(t, sep) ==
    LET at == {i \in 1..Len(t) : t[i] = sep}
    IN  IF at = {} THEN <<t>>
        ELSE LET i == CHOOSE j \in at : \A k \in at : j <= k
             IN  <<SubSeq(t, 1, i - 1)>> \o Split(SubSeq(t, i + 1, Len(t)), sep)

\* urllib.parse.parse_qsl of a query with no escape: the fields are split at
\* "&" and at their first "="; a field with no "=" or with a blank value is
\* dropped.
parse_qsl(qs) ==
    LET fields == Split(qs, "&")
        at(f) == {i \in 1..Len(f) : f[i] = "="}
        first(f) == CHOOSE j \in at(f) : \A k \in at(f) : j <= k
        kept == SelectSeq(fields, LAMBDA f : at(f) # {} /\ first(f) < Len(f))
    IN  [i \in 1..Len(kept) |->
            [name |-> SubSeq(kept[i], 1, first(kept[i]) - 1),
             value |-> SubSeq(kept[i], first(kept[i]) + 1, Len(kept[i]))]]

\* parse_qs(args).get(name, [None])[0]
QueryGet(parsed, name) ==
    LET hits == {i \in 1..Len(parsed) : parsed[i].name = name}
    IN  IF hits = {} THEN <<>>
        ELSE parsed[CHOOSE i \in hits : \A j \in hits : i <= j].value

\* parse_start_payload, for the second word args of the text of the message
parse_start_payload(args) ==
    LET rest == IF args # <<>> /\ Head(args) = "?" THEN Tail(args) ELSE args
        parsed == IF \E i \in 1..Len(rest) : rest[i] = "=" THEN parse_qsl(rest) ELSE <<>>
    IN  IF parsed # <<>>
        THEN [utm_source |-> QueryGet(parsed, <<"u","t","m","_","s","o","u","r","c","e">>),
              utm_medium |-> QueryGet(parsed, <<"u","t","m","_","m","e","d","i","u","m">>),
              utm_campaign |->
                  QueryGet(parsed, <<"u","t","m","_","c","a","m","p","a","i","g","n">>),
              start_link_slug |-> Lower(QueryGet(parsed, <<"s","t","a","r","t">>))]
        ELSE [utm_source |-> <<>>, utm_medium |-> <<>>, utm_campaign |-> <<>>,
              start_link_slug |-> Lower(rest)]

\* get_or_create_user with INSERT ... ON CONFLICT (user_id) DO UPDATE in place of
\* the SELECT: the columns of the row are written at every call
get_or_create_user_upsert(user_id, username, first_name, utm_source, utm_medium, utm_campaign) ==
    /\ users' = users \cup {user_id}
    /\ user_columns' =
            [user_columns EXCEPT ![user_id] =
                [username |-> username, first_name |-> first_name,
                 utm_source |-> utm_source, utm_medium |-> utm_medium,
                 utm_campaign |-> utm_campaign]]
    /\ created' = [created EXCEPT ![user_id] = IF user_id \in users THEN @ ELSE @ + 1]
    /\ UNCHANGED link_stats

\* get_or_create_user: the row and the row of link_stats are inserted when the
\* SELECT finds no row of the user; nothing is written when it finds one.
get_or_create_user(user_id, username, first_name, utm_source, utm_medium, utm_campaign) ==
    IF user_id \in users
    THEN UNCHANGED <<users, user_columns, link_stats, created>>
    ELSE /\ users' = users \cup {user_id}
         /\ user_columns' =
                [user_columns EXCEPT ![user_id] =
                    [username |-> username, first_name |-> first_name,
                     utm_source |-> utm_source, utm_medium |-> utm_medium,
                     utm_campaign |-> utm_campaign]]
         /\ link_stats' =
                IF utm_source # <<>> \/ utm_medium # <<>> \/ utm_campaign # <<>>
                THEN Append(link_stats,
                            [utm_source |-> utm_source, utm_medium |-> utm_medium,
                             utm_campaign |-> utm_campaign, user_id |-> user_id])
                ELSE link_stats
         /\ created' = [created EXCEPT ![user_id] = @ + 1]

\* get_start_link_by_slug and the SELECT of record_start_link_click:
\* WHERE slug = LOWER($1); 0 when no row
get_start_link_by_slug(links, slug) ==
    LET hits == {i \in 1..Len(links) : links[i] # NoStartLink /\ links[i].slug = Lower(slug)}
    IN  IF hits = {} THEN 0 ELSE CHOOSE i \in hits : \A j \in hits : i <= j

\* cmd_start, for the text "/start" of a user with no username
cmd_start(u) ==
    /\ Idle(u)
    /\ get_or_create_user(u, <<>>, <<"n">>, <<>>, <<>>, <<>>)
    /\ Say(u, "welcome")
    /\ Shows(u, get_main_menu_keyboard)
    /\ UNCHANGED <<questionnaires, promo_codes, start_links, start_link_clicks,
                   promo_code_usage, fsm_state, fsm_data, task, sweep, sent,
                   crashes, completions, last_attach>>

\* cmd_start, for a text "/start <args>": get_or_create_user, and the SELECT of
\* record_start_link_click when the payload has a slug.  The statements of
\* get_or_create_user read and write the row of the user alone.
cmd_start_payload(u, username, first_name, args) ==
    LET p == parse_start_payload(args)
        link == get_start_link_by_slug(start_links, p.start_link_slug)
    IN  /\ Idle(u)
        /\ get_or_create_user(u, username, first_name, p.utm_source, p.utm_medium,
                              p.utm_campaign)
        /\ IF p.start_link_slug # <<>> /\ link # 0
           THEN /\ task' = [task EXCEPT ![u] = [IdleTask EXCEPT !.pc = "click_insert",
                                                               !.link = link]]
                /\ Silent
                /\ UNCHANGED buttons
           ELSE /\ Say(u, "welcome")
                /\ Shows(u, get_main_menu_keyboard)
                /\ UNCHANGED task
        /\ UNCHANGED <<questionnaires, promo_codes, start_links, start_link_clicks,
                       promo_code_usage, fsm_state, fsm_data, sweep, sent,
                       crashes, completions, last_attach>>

\* cmd_start: the INSERT of record_start_link_click and the welcome; the
\* INSERT fails on start_link_id REFERENCES start_links(id) when the link is
\* gone, and the except branch of cmd_start answers with the error.
click_insert(u) ==
    /\ task[u].pc = "click_insert"
    /\ Len(start_link_clicks) < MaxClicks
    /\ IF start_links[task[u].link] # NoStartLink
       THEN /\ start_link_clicks' =
                    Append(start_link_clicks,
                           [start_link_id |-> task[u].link, user_id |-> u])
            /\ Say(u, "welcome")
            /\ Shows(u, get_main_menu_keyboard)
       ELSE /\ Say(u, "error")
            /\ UNCHANGED <<start_link_clicks, buttons>>
    /\ task' = [task EXCEPT ![u] = IdleTask]
    /\ UNCHANGED <<users, questionnaires, promo_codes, user_columns, link_stats,
                   start_links, created, promo_code_usage, fsm_state, fsm_data,
                   sweep, sent, crashes, completions, last_attach>>

\* ------------------------------------------------------- the intake form
Digits == <<"0","1","2","3","4","5","6","7","8","9">>

IsDigit(c) == \E i \in 1..10 : Digits[i] = c

DigitVal(c) == (CHOOSE i \in 1..10 : Digits[i] = c) - 1

RECURSIVE DigitsVal(_)
DigitsVal(t) ==
    IF t = <<>> THEN 0
    ELSE 10 * DigitsVal(SubSeq(t, 1, Len(t) - 1)) + DigitVal(t[Len(t)])

AllDigits(t) == t # <<>> /\ \A i \in 1..Len(t) : IsDigit(t[i])

\* int(text): surrounding whitespace, an optional sign, decimal digits.
\* ok = FALSE stands for ValueError.
ParseInt(text) ==
    LET t == Strip(text)
        signed == t # <<>> /\ t[1] \in {"+", "-"}
        d == IF signed THEN Tail(t) ELSE t
    IN  IF AllDigits(d)
        THEN [ok |-> TRUE,
              value |-> IF signed /\ t[1] = "-" THEN 0 - DigitsVal(d) ELSE DigitsVal(d)]
        ELSE [ok |-> FALSE, value |-> 0]

\* text.replace(",", ".")
ReplaceComma(text) == [i \in 1..Len(text) |-> IF text[i] = "," THEN "." ELSE text[i]]

\* The float that is not a number, as a stored weight
NaN == 0 - 1

\* float(text) for the texts the model sends: surrounding whitespace, an
\* optional sign, then "nan" in any letter case or digits with at most one
\* point and at most two digits after it.  The value is kept in hundredths;
\* ok = FALSE stands for ValueError.
ParseFloat(text) ==
    LET t == Strip(text)
        signed == t # <<>> /\ t[1] \in {"+", "-"}
        d == IF signed THEN Tail(t) ELSE t
        sign == IF signed /\ t[1] = "-" THEN 0 - 1 ELSE 1
        dots == {i \in 1..Len(d) : d[i] = "."}
        No == [ok |-> FALSE, nan |-> FALSE, value |-> 0]
    IN  IF Upper(d) = <<"N", "A", "N">>
        THEN [ok |-> TRUE, nan |-> TRUE, value |-> 0]
        ELSE IF dots = {}
        THEN IF AllDigits(d)
             THEN [ok |-> TRUE, nan |-> FALSE, value |-> sign * 100 * DigitsVal(d)]
             ELSE No
        ELSE IF Cardinality(dots) > 1 THEN No
        ELSE LET k == CHOOSE i \in dots : TRUE
                 whole == SubSeq(d, 1, k - 1)
                 frac == SubSeq(d, k + 1, Len(d))
             IN  IF /\ whole \o frac # <<>>
                    /\ \A i \in 1..Len(whole) : IsDigit(whole[i])
                    /\ \A i \in 1..Len(frac) : IsDigit(frac[i])
                    /\ Len(frac) <= 2
                 THEN [ok |-> TRUE, nan |-> FALSE,
                       value |-> sign * (100 * DigitsVal(whole)
                                 + (IF Len(frac) = 1 THEN 10 ELSE 1) * DigitsVal(frac))]
                 ELSE No

\* The check of the age written as age < 0 or age > 150
AgeRejectedBelowZero(age) == age < 0 \/ age > 150

\* age < 1 or age > 150
AgeRejected(age) == age < 1 \/ age > 150

\* weight < 1 or weight > 500: both comparisons are False for the float nan
WeightRejected(weight) == ~weight.nan /\ (weight.value < 100 \/ weight.value > 50000)

\* The check of the workouts written as workouts < 1 or workouts > 8
WorkoutsRejectedAboveEight(workouts) == workouts < 1 \/ workouts > 8

\* workouts < 1 or workouts > 7
WorkoutsRejected(workouts) == workouts < 1 \/ workouts > 7

\* The longest diet or problem text that is kept: message.text[:500]
TextLimit == 500

Truncate(text) == SubSeq(text, 1, Min(Len(text), TextLimit))

\* The texts a user sends in each state of the form
AgeTexts == { <<"2","9">>, <<"0">>, <<"1","5","1">>, <<"a">> }
WeightTexts == { <<"7","5",".","5">>, <<"7","5",",","5">>, <<"0",".","5">>, <<"a">> }
WorkoutTexts == { <<"4">>, <<"8">>, <<"a">> }
DietTexts == { <<"m","e","a","t">> }
ProblemTexts == { <<"k","n","e","e">> }

\* start_questionnaire
start_questionnaire(u) ==
    /\ Pressed(u, "start_questionnaire")
    /\ fsm_state' = [fsm_state EXCEPT ![u] = "waiting_gender"]
    /\ Say(u, "ask_gender")
    /\ Shows(u, {"gender_male", "gender_female"})
    /\ UNCHANGED <<users, questionnaires, promo_codes, user_columns,
                   link_stats, start_links, start_link_clicks, created,
                   promo_code_usage, fsm_data, task, sweep, sent, crashes,
                   completions, last_attach>>

\* process_gender: registered for the callback data alone, whatever the state
process_gender(u, data) ==
    /\ Pressed(u, data)
    /\ fsm_data' = [fsm_data EXCEPT ![u].gender =
                        IF data = "gender_male" THEN "Muzhskoy" ELSE "Zhenskiy"]
    /\ fsm_state' = [fsm_state EXCEPT ![u] = "waiting_age"]
    /\ Say(u, "ask_age")
    /\ UNCHANGED <<users, buttons, questionnaires, promo_codes, user_columns,
                   link_stats, start_links, start_link_clicks, created,
                   promo_code_usage, task, sweep, sent, crashes, completions,
                   last_attach>>

\* process_age
process_age(u, text) ==
    /\ Receives(u)
    /\ fsm_state[u] = "waiting_age"
    /\ LET age == ParseInt(text)
       IN  IF ~age.ok
           THEN Say(u, "not_a_number") /\ UNCHANGED <<fsm_state, fsm_data>>
           ELSE IF AgeRejected(age.value)
           THEN Say(u, "bad_age") /\ UNCHANGED <<fsm_state, fsm_data>>
           ELSE /\ fsm_data' = [fsm_data EXCEPT ![u].age = age.value]
                /\ fsm_state' = [fsm_state EXCEPT ![u] = "waiting_weight"]
                /\ Say(u, "ask_weight")
    /\ UNCHANGED <<users, buttons, questionnaires, promo_codes, user_columns,
                   link_stats, start_links, start_link_clicks, created,
                   promo_code_usage, task, sweep, sent, crashes, completions,
                   last_attach>>

\* process_weight
process_weight(u, text) ==
    /\ Receives(u)
    /\ fsm_state[u] = "waiting_weight"
    /\ LET weight == ParseFloat(ReplaceComma(text))
       IN  IF ~weight.ok
           THEN Say(u, "not_a_number") /\ UNCHANGED <<fsm_state, fsm_data>>
           ELSE IF WeightRejected(weight)
           THEN Say(u, "bad_weight") /\ UNCHANGED <<fsm_state, fsm_data>>
           ELSE /\ fsm_data' = [fsm_data EXCEPT ![u].weight =
                                    IF weight.nan THEN NaN ELSE weight.value]
                /\ fsm_state' = [fsm_state EXCEPT ![u] = "waiting_workouts"]
                /\ Say(u, "ask_workouts")
    /\ UNCHANGED <<users, buttons, questionnaires, promo_codes, user_columns,
                   link_stats, start_links, start_link_clicks, created,
                   promo_code_usage, task, sweep, sent, crashes, completions,
                   last_attach>>

\* process_workouts
process_workouts(u, text) ==
    /\ Receives(u)
    /\ fsm_state[u] = "waiting_workouts"
    /\ LET workouts == ParseInt(text)
       IN  IF ~workouts.ok
           THEN Say(u, "not_a_number") /\ UNCHANGED <<fsm_state, fsm_data, buttons>>
           ELSE IF WorkoutsRejected(workouts.value)
           THEN Say(u, "bad_workouts") /\ UNCHANGED <<fsm_state, fsm_data, buttons>>
           ELSE /\ fsm_data' = [fsm_data EXCEPT ![u].workouts_per_week = workouts.value]
                /\ fsm_state' = [fsm_state EXCEPT ![u] = "waiting_diet"]
                /\ Say(u, "ask_diet")
                /\ Shows(u, {"skip_diet"})
    /\ UNCHANGED <<users, questionnaires, promo_codes, user_columns,
                   link_stats, start_links, start_link_clicks, created,
                   promo_code_usage, task, sweep, sent, crashes, completions,
                   last_attach>>

\* skip_diet: registered for the callback data alone, whatever the state
skip_diet(u) ==
    /\ Pressed(u, "skip_diet")
    /\ fsm_data' = [fsm_data EXCEPT ![u].diet = <<>>]
    /\ fsm_state' = [fsm_state EXCEPT ![u] = "waiting_problem"]
    /\ Say(u, "ask_problem")
    /\ Shows(u, {"skip_problem"})
    /\ UNCHANGED <<users, questionnaires, promo_codes, user_columns,
                   link_stats, start_links, start_link_clicks, created,
                   promo_code_usage, task, sweep, sent, crashes, completions,
                   last_attach>>

\* process_diet
process_diet(u, text) ==
    /\ Receives(u)
    /\ fsm_state[u] = "waiting_diet"
    /\ fsm_data' = [fsm_data EXCEPT ![u].diet = Truncate(text)]
    /\ fsm_state' = [fsm_state EXCEPT ![u] = "waiting_problem"]
    /\ Say(u, "ask_problem")
    /\ Shows(u, {"skip_problem"})
    /\ UNCHANGED <<users, questionnaires, promo_codes, user_columns,
                   link_stats, start_links, start_link_clicks, created,
                   promo_code_usage, task, sweep, sent, crashes, completions,
                   last_attach>>

\* ------------------------------------------- completion of the form
\* class QuestionnaireStates: the states of a conversation that is open
QuestionnaireStates ==
    {"waiting_gender", "waiting_age", "waiting_weight", "waiting_workouts",
     "waiting_diet", "waiting_problem"}

\* A clear of the whole MemoryStorage, the sessions of the other users included
ClearEveryone(u) ==
    /\ fsm_state' = [v \in Users |-> "None"]
    /\ fsm_data' = [v \in Users |-> NoData]

\* state.clear()
Clear(u) ==
    /\ fsm_state' = [fsm_state EXCEPT ![u] = "None"]
    /\ fsm_data' = [fsm_data EXCEPT ![u] = NoData]

\* The loop of attach_user_promo_codes_to_questionnaire up to its next query,
\* or its return: to finish_questionnaire, or to a direct caller.
AttachContinue(u, t, usage) ==
    IF t.promo_usages # <<>>
    THEN /\ task' = [task EXCEPT ![u] =
                [t EXCEPT !.pc = IF Head(t.promo_usages).is_single_use
                                 THEN "attach_existing" ELSE "attach_insert"]]
         /\ UNCHANGED last_attach
    ELSE IF t.direct
    THEN /\ task' = [task EXCEPT ![u] = IdleTask]
         /\ last_attach' =
                [user_id |-> u, questionnaire_id |-> t.questionnaire_id,
                 attached_count |-> t.attached_count,
                 changed |-> usage # t.at_start,
                 repeated |-> /\ last_attach.user_id = u
                              /\ last_attach.questionnaire_id = t.questionnaire_id]
    ELSE /\ task' = [task EXCEPT ![u] = [t EXCEPT !.pc = "details"]]
         /\ UNCHANGED last_attach

\* finish_questionnaire up to create_questionnaire, with the FSM data as the
\* calling handler has left it
finish_questionnaire(u, data) ==
    /\ Len(questionnaires) < MaxQuestionnaires
    /\ fsm_data' = [fsm_data EXCEPT ![u] = data]
    /\ questionnaires' = create_questionnaire(questionnaires, u, data)
    /\ task' = [task EXCEPT ![u] =
            [IdleTask EXCEPT !.pc = "attach_fetch",
                             !.questionnaire_id = Len(questionnaires) + 1]]
    /\ completions' = [completions EXCEPT ![u] =
            IF fsm_state[u] \in QuestionnaireStates THEN @ + 1 ELSE @]
    /\ Silent
    /\ UNCHANGED <<users, buttons, promo_codes, user_columns, link_stats,
                   start_links, start_link_clicks, created, promo_code_usage,
                   fsm_state, sweep, sent, crashes, last_attach>>

\* skip_problem: registered for the callback data alone, whatever the state
skip_problem(u) ==
    /\ Pressed(u, "skip_problem")
    /\ finish_questionnaire(u, [fsm_data[u] EXCEPT !.problem_or_injury = <<>>])

\* process_problem
process_problem(u, text) ==
    /\ Receives(u)
    /\ fsm_state[u] = "waiting_problem"
    /\ finish_questionnaire(u, [fsm_data[u] EXCEPT !.problem_or_injury = Truncate(text)])

\* attach_user_promo_codes_to_questionnaire: the first query
attach_fetch(u) ==
    /\ task[u].pc = "attach_fetch"
    /\ AttachContinue(u,
            [task[u] EXCEPT !.promo_usages = PendingUsages(promo_code_usage, promo_codes, u),
                            !.attached_count = 0],
            promo_code_usage)
    /\ Silent
    /\ UNCHANGED <<users, buttons, questionnaires, promo_codes, user_columns,
                   link_stats, start_links, start_link_clicks, created,
                   promo_code_usage, fsm_state, fsm_data, sweep, sent,
                   crashes, completions>>

\* attach: the query for a single-use code, and "continue" when it finds a row
attach_existing(u) ==
    /\ task[u].pc = "attach_existing"
    /\ IF UsedInQuestionnaire(promo_code_usage, Head(task[u].promo_usages).promo_code_id)
       THEN AttachContinue(u, [task[u] EXCEPT !.promo_usages = Tail(@)], promo_code_usage)
       ELSE /\ task' = [task EXCEPT ![u].pc = "attach_insert"]
            /\ UNCHANGED last_attach
    /\ Silent
    /\ UNCHANGED <<users, buttons, questionnaires, promo_codes, user_columns,
                   link_stats, start_links, start_link_clicks, created,
                   promo_code_usage, fsm_state, fsm_data, sweep, sent,
                   crashes, completions>>

\* attach: the INSERT of the row with the questionnaire
attach_insert(u) ==
    /\ task[u].pc = "attach_insert"
    /\ Len(promo_code_usage) < MaxUsage
    /\ promo_code_usage' =
            InsertAttached(promo_code_usage, u, Head(task[u].promo_usages).promo_code_id,
                           task[u].questionnaire_id)
    /\ AttachContinue(u,
            [task[u] EXCEPT !.promo_usages = Tail(@), !.attached_count = @ + 1],
            promo_code_usage')
    /\ Silent
    /\ UNCHANGED <<users, buttons, questionnaires, promo_codes, user_columns,
                   link_stats, start_links, start_link_clicks, created,
                   fsm_state, fsm_data, sweep, sent, crashes, completions>>

\* One bot.send_message of notify_admins_about_questionnaire; an exception of
\* the transport is caught and logged (ok = FALSE) and the loop goes on.
\* The log keeps, as history, the caller of notify_admins_about_questionnaire.
SendMessage(log, questionnaire_id, admin_id, text, ok, by) ==
    [log EXCEPT ![questionnaire_id][admin_id] =
        Append(@, [text |-> text, ok |-> ok, by |-> by])]

\* finish_questionnaire going from get_questionnaire_details straight to
\* mark_questionnaires_sent, with no call of notify_admins_about_questionnaire
details_without_notify(u) ==
    /\ task[u].pc = "details"
    /\ task' = [task EXCEPT ![u].pc = "mark"]
    /\ Silent
    /\ UNCHANGED <<users, buttons, questionnaires, promo_codes, user_columns,
                   link_stats, start_links, start_link_clicks, created,
                   promo_code_usage, fsm_state, fsm_data, sweep, sent,
                   crashes, completions, last_attach>>

\* finish_questionnaire: get_questionnaire_details, then
\* notify_admins_about_questionnaire up to its first send_message
details(u) ==
    /\ task[u].pc = "details"
    /\ LET questionnaire == get_questionnaire_details(questionnaires, promo_code_usage,
                                                      promo_codes, task[u].questionnaire_id)
       IN  task' = [task EXCEPT ![u] =
                [@ EXCEPT !.questionnaire = questionnaire,
                          !.text_to_send = build_questionnaire_text(questionnaire),
                          !.admin = 1,
                          !.pc = IF get_admin_ids = <<>> THEN "mark" ELSE "notify"]]
    /\ Silent
    /\ UNCHANGED <<users, buttons, questionnaires, promo_codes, user_columns,
                   link_stats, start_links, start_link_clicks, created,
                   promo_code_usage, fsm_state, fsm_data, sweep, sent,
                   crashes, completions, last_attach>>

\* The loop over the admins left at the first send_message that raises
notify_until_failure(u, ok) ==
    /\ task[u].pc = "notify"
    /\ sent' = SendMessage(sent, task[u].questionnaire_id, get_admin_ids[task[u].admin],
                           task[u].text_to_send, ok, "finish_questionnaire")
    /\ task' = [task EXCEPT ![u] =
            IF ok /\ task[u].admin < Len(get_admin_ids)
            THEN [@ EXCEPT !.admin = @ + 1]
            ELSE [@ EXCEPT !.pc = "mark"]]
    /\ Silent
    /\ UNCHANGED <<users, buttons, questionnaires, promo_codes, user_columns,
                   link_stats, start_links, start_link_clicks, created,
                   promo_code_usage, fsm_state, fsm_data, sweep, crashes,
                   completions, last_attach>>

\* notify_admins_about_questionnaire: one turn of the loop over the admins
notify(u, ok) ==
    /\ task[u].pc = "notify"
    /\ sent' = SendMessage(sent, task[u].questionnaire_id, get_admin_ids[task[u].admin],
                           task[u].text_to_send, ok, "finish_questionnaire")
    /\ task' = [task EXCEPT ![u] =
            IF task[u].admin < Len(get_admin_ids)
            THEN [@ EXCEPT !.admin = @ + 1]
            ELSE [@ EXCEPT !.pc = "mark"]]
    /\ Silent
    /\ UNCHANGED <<users, buttons, questionnaires, promo_codes, user_columns,
                   link_stats, start_links, start_link_clicks, created,
                   promo_code_usage, fsm_state, fsm_data, sweep, crashes,
                   completions, last_attach>>

\* finish_questionnaire ending with no call of state.clear()
mark_without_clear(u) ==
    /\ task[u].pc = "mark"
    /\ questionnaires' = mark_questionnaires_sent(questionnaires, <<task[u].questionnaire_id>>)
    /\ Say(u, "thanks")
    /\ task' = [task EXCEPT ![u] = IdleTask]
    /\ UNCHANGED <<users, buttons, promo_codes, user_columns, link_stats,
                   start_links, start_link_clicks, created, promo_code_usage,
                   fsm_state, fsm_data, sweep, sent, crashes, completions,
                   last_attach>>

\* finish_questionnaire: mark_questionnaires_sent, state.clear(), the thanks
mark(u) ==
    /\ task[u].pc = "mark"
    /\ questionnaires' = mark_questionnaires_sent(questionnaires, <<task[u].questionnaire_id>>)
    /\ Clear(u)
    /\ Say(u, "thanks")
    /\ task' = [task EXCEPT ![u] = IdleTask]
    /\ UNCHANGED <<users, buttons, promo_codes, user_columns, link_stats,
                   start_links, start_link_clicks, created, promo_code_usage,
                   sweep, sent, crashes, completions, last_attach>>

\* ------------------------------------------------------------ promo codes
\* The texts a user sends as a promo code
PromoTexts ==
    { <<"v","i","p">>, <<" ","V","I","P">>, <<"S","U","M">>, <<"F","A","K","E">> }

\* enter_promo_code: registered for the callback data alone, whatever the state
enter_promo_code(u) ==
    /\ Pressed(u, "enter_promo_code")
    /\ fsm_state' = [fsm_state EXCEPT ![u] = "waiting_promo_code"]
    /\ Say(u, "ask_promo_code")
    /\ UNCHANGED <<users, buttons, questionnaires, promo_codes, user_columns,
                   link_stats, start_links, start_link_clicks, created,
                   promo_code_usage, fsm_data, task, sweep, sent, crashes,
                   completions, last_attach>>

\* The end of process_promo_code: the answer, state.clear(), return
PromoReturn(u, kind, description) ==
    /\ Answer(u, kind, description)
    /\ Clear(u)
    /\ task' = [task EXCEPT ![u] = IdleTask]

\* process_promo_code: the message reaches the handler
process_promo_code(u, text) ==
    /\ Receives(u)
    /\ fsm_state[u] = "waiting_promo_code"
    /\ task' = [task EXCEPT ![u] =
            [IdleTask EXCEPT !.pc = "check_promo_code", !.text = text,
                             !.at_start = promo_code_usage]]
    /\ last_attach' = NoAttach
    /\ Silent
    /\ UNCHANGED <<users, buttons, questionnaires, promo_codes, user_columns,
                   link_stats, start_links, start_link_clicks, created,
                   promo_code_usage, fsm_state, fsm_data, sweep, sent,
                   crashes, completions>>

\* process_promo_code: check_promo_code(message.text.strip()), and the
\* "not found" branch
promo_check(u) ==
    /\ task[u].pc = "check_promo_code"
    /\ LET promo_code == Strip(task[u].text)
           promo == check_promo_code(promo_codes, promo_code)
       IN  IF promo = 0
           THEN PromoReturn(u, "promo_not_found", <<>>)
           ELSE /\ task' = [task EXCEPT ![u] =
                        [@ EXCEPT
                            !.pc = IF promo_codes[promo].is_single_use
                                   THEN "promo_single_use" ELSE "promo_existing",
                            !.promo = [id |-> promo,
                                       description |-> promo_codes[promo].description,
                                       is_single_use |-> promo_codes[promo].is_single_use]]]
                /\ Silent
                /\ UNCHANGED <<fsm_state, fsm_data>>
    /\ UNCHANGED <<users, buttons, questionnaires, promo_codes, user_columns,
                   link_stats, start_links, start_link_clicks, created,
                   promo_code_usage, sweep, sent, crashes, completions,
                   last_attach>>

\* process_promo_code going on without the query for a single-use code
promo_single_use_skipped(u) ==
    /\ task[u].pc = "promo_single_use"
    /\ task' = [task EXCEPT ![u].pc = "promo_existing"]
    /\ Silent
    /\ UNCHANGED <<users, buttons, questionnaires, promo_codes, user_columns,
                   link_stats, start_links, start_link_clicks, created,
                   promo_code_usage, fsm_state, fsm_data, sweep, sent,
                   crashes, completions, last_attach>>

\* process_promo_code: the query for a single-use code
promo_single_use(u) ==
    /\ task[u].pc = "promo_single_use"
    /\ IF AnyUsage(promo_code_usage, task[u].promo.id)
       THEN PromoReturn(u, "promo_already_used", <<>>)
       ELSE /\ task' = [task EXCEPT ![u].pc = "promo_existing"]
            /\ Silent
            /\ UNCHANGED <<fsm_state, fsm_data>>
    /\ UNCHANGED <<users, buttons, questionnaires, promo_codes, user_columns,
                   link_stats, start_links, start_link_clicks, created,
                   promo_code_usage, sweep, sent, crashes, completions,
                   last_attach>>

\* process_promo_code: the query for a pending row of this user and code
promo_existing(u) ==
    /\ task[u].pc = "promo_existing"
    /\ IF PendingExists(promo_code_usage, u, task[u].promo.id)
       THEN PromoReturn(u, "promo_applied", task[u].promo.description)
       ELSE /\ task' = [task EXCEPT ![u].pc = "promo_insert"]
            /\ Silent
            /\ UNCHANGED <<fsm_state, fsm_data>>
    /\ UNCHANGED <<users, buttons, questionnaires, promo_codes, user_columns,
                   link_stats, start_links, start_link_clicks, created,
                   promo_code_usage, sweep, sent, crashes, completions,
                   last_attach>>

\* process_promo_code: the INSERT of the pending row, and the answer
promo_insert(u) ==
    /\ task[u].pc = "promo_insert"
    /\ Len(promo_code_usage) < MaxUsage
    /\ IF promo_codes[task[u].promo.id] # NoPromoCode
       THEN /\ promo_code_usage' =
                    Append(promo_code_usage, UsageRow(u, task[u].promo.id, 0))
            /\ PromoReturn(u, "promo_applied", task[u].promo.description)
       ELSE \* promo_code_id REFERENCES promo_codes(id): the code was deleted
            \* after check_promo_code; the exception ends the handler
            /\ task' = [task EXCEPT ![u] = IdleTask]
            /\ Silent
            /\ UNCHANGED <<promo_code_usage, fsm_state, fsm_data>>
    /\ last_attach' = NoAttach
    /\ UNCHANGED <<users, buttons, questionnaires, promo_codes, user_columns,
                   link_stats, start_links, start_link_clicks, created,
                   sweep, sent, crashes, completions>>

\* ------------------------------------------- direct calls of the database
\* db.create_questionnaire(user_id) called with no answers
call_create_questionnaire(u) ==
    /\ Receives(u)
    /\ Len(questionnaires) < MaxQuestionnaires
    /\ questionnaires' = create_questionnaire(questionnaires, u, NoData)
    /\ Silent
    /\ UNCHANGED <<users, buttons, promo_codes, user_columns, link_stats,
                   start_links, start_link_clicks, created, promo_code_usage,
                   fsm_state, fsm_data, task, sweep, sent, crashes,
                   completions, last_attach>>

\* db.attach_user_promo_codes_to_questionnaire(user_id, questionnaire_id)
\* called for a questionnaire of the user
call_attach(u, questionnaire_id) ==
    /\ Receives(u)
    /\ questionnaire_id \in 1..Len(questionnaires)
    /\ questionnaires[questionnaire_id].user_id = u
    /\ task' = [task EXCEPT ![u] =
            [IdleTask EXCEPT !.pc = "attach_fetch",
                             !.questionnaire_id = questionnaire_id,
                             !.direct = TRUE,
                             !.at_start = promo_code_usage]]
    /\ Silent
    /\ UNCHANGED <<users, buttons, questionnaires, promo_codes, user_columns,
                   link_stats, start_links, start_link_clicks, created,
                   promo_code_usage, fsm_state, fsm_data, sweep, sent,
                   crashes, completions, last_attach>>

\* --------------------------------------------------------------- main.py
\* The loop of send_daily_questionnaires up to its next await
SweepContinue(sw) ==
    IF sw.questionnaires = <<>>
    THEN [sw EXCEPT !.pc = "mark"]
    ELSE LET sw1 == [sw EXCEPT !.questionnaire_ids = Append(@, Head(sw.questionnaires).id),
                               !.text_to_send =
                                    build_questionnaire_text(Head(sw.questionnaires)),
                               !.admin = 1]
         IN  IF get_admin_ids = <<>>
             THEN [sw1 EXCEPT !.questionnaires = Tail(@), !.pc = "next"]
             ELSE [sw1 EXCEPT !.pc = "notify"]

\* send_daily_questionnaires: get_new_questionnaires, return when there is none
sweep_fetch ==
    /\ sweep.pc = "idle"
    /\ LET new == get_new_questionnaires(questionnaires, promo_code_usage, promo_codes)
       IN  sweep' = IF new = <<>> THEN IdleSweep
                    ELSE SweepContinue([IdleSweep EXCEPT !.questionnaires = new,
                                                         !.at_start = sent])
    /\ Silent
    /\ UNCHANGED <<users, buttons, questionnaires, promo_codes, user_columns,
                   link_stats, start_links, start_link_clicks, created,
                   promo_code_usage, fsm_state, fsm_data, task, sent,
                   crashes, completions, last_attach>>

\* send_daily_questionnaires: one send_message of the notification of the
\* questionnaire at the head of the list
sweep_notify(ok) ==
    /\ sweep.pc = "notify"
    /\ sent' = SendMessage(sent, Head(sweep.questionnaires).id, get_admin_ids[sweep.admin],
                           sweep.text_to_send, ok, "send_daily_questionnaires")
    /\ sweep' = IF sweep.admin < Len(get_admin_ids)
                THEN [sweep EXCEPT !.admin = @ + 1]
                ELSE SweepContinue([sweep EXCEPT !.questionnaires = Tail(@)])
    /\ Silent
    /\ UNCHANGED <<users, buttons, questionnaires, promo_codes, user_columns,
                   link_stats, start_links, start_link_clicks, created,
                   promo_code_usage, fsm_state, fsm_data, task, crashes,
                   completions, last_attach>>

\* send_daily_questionnaires: mark_questionnaires_sent(questionnaire_ids)
sweep_mark ==
    /\ sweep.pc = "mark"
    /\ questionnaires' = mark_questionnaires_sent(questionnaires, sweep.questionnaire_ids)
    /\ sweep' = IdleSweep
    /\ Silent
    /\ UNCHANGED <<users, buttons, promo_codes, user_columns, link_stats,
                   start_links, start_link_clicks, created, promo_code_usage,
                   fsm_state, fsm_data, task, sent, crashes, completions,
                   last_attach>>

\* The process stops and starts again: the tasks and the MemoryStorage are
\* lost, the tables stay.
Crash ==
    /\ crashes < MaxCrashes
    /\ crashes' = crashes + 1
    /\ task' = [u \in Users |-> IdleTask]
    /\ sweep' = IdleSweep
    /\ fsm_state' = [u \in Users |-> "None"]
    /\ fsm_data' = [u \in Users |-> NoData]
    /\ Silent
    /\ UNCHANGED <<users, buttons, questionnaires, promo_codes, user_columns,
                   link_stats, start_links, start_link_clicks, created,
                   promo_code_usage, sent, completions, last_attach>>

\* ------------------------------------------------------- specifications
Form(u) ==
    \/ start_questionnaire(u)
    \/ \E data \in {"gender_male", "gender_female"} : process_gender(u, data)
    \/ \E text \in AgeTexts : process_age(u, text)
    \/ \E text \in WeightTexts : process_weight(u, text)
    \/ \E text \in WorkoutTexts : process_workouts(u, text)
    \/ skip_diet(u)
    \/ \E text \in DietTexts : process_diet(u, text)
    \/ \E text \in ProblemTexts : process_problem(u, text)

Attach(u) == attach_fetch(u) \/ attach_existing(u) \/ attach_insert(u)

Redeem(u) ==
    \/ enter_promo_code(u)
    \/ \E text \in PromoTexts : process_promo_code(u, text)
    \/ promo_check(u)
    \/ promo_single_use(u)
    \/ promo_existing(u)
    \/ promo_insert(u)

\* The whole program: every handler of every user, the daily job, restarts.
NextProgram ==
    \/ \E u \in Users : cmd_start(u)
    \/ \E u \in Users : Form(u)
    \/ \E u \in Users : skip_problem(u) \/ Attach(u) \/ details(u) \/ mark(u)
    \/ \E u \in Users, ok \in BOOLEAN : notify(u, ok)
    \/ \E u \in Users : Redeem(u)
    \/ sweep_fetch \/ sweep_mark
    \/ \E ok \in BOOLEAN : sweep_notify(ok)
    \/ Crash

SpecProgram == Init /\ [][NextProgram]_vars

\* Promo codes: returning users redeem codes and complete forms (the button
\* skip_problem of an earlier message completes in every state), every send
\* succeeds.
NextPromo ==
    \/ \E u \in Users : Redeem(u)
    \/ \E u \in Users : skip_problem(u) \/ Attach(u) \/ details(u) \/ mark(u)
    \/ \E u \in Users : notify(u, TRUE)

SpecPromo == InitReturning /\ [][NextPromo]_vars

\* No handler and no call is under way
Quiet == \A u \in Users : Idle(u)

\* The operations of the database on promo codes, called one after the other:
\* redemptions through the handler, create and attach directly.
NextLedger ==
    \/ \E u \in Users : Quiet /\ enter_promo_code(u)
    \/ \E u \in Users, text \in PromoTexts : Quiet /\ process_promo_code(u, text)
    \/ \E u \in Users : promo_check(u) \/ promo_single_use(u)
                           \/ promo_existing(u) \/ promo_insert(u)
    \/ \E u \in Users : Quiet /\ call_create_questionnaire(u)
    \/ \E u \in Users, q \in 1..MaxQuestionnaires : Quiet /\ call_attach(u, q)
    \/ \E u \in Users : Attach(u)

SpecLedger == InitReturning /\ [][NextLedger]_vars

\* Delivery: returning users complete forms, the daily job runs beside them, a
\* send may fail, the process may restart.  No promo code is redeemed, so
\* attach finds no pending row.
NextNotify ==
    \/ \E u \in Users : skip_problem(u) \/ attach_fetch(u) \/ details(u) \/ mark(u)
    \/ \E u \in Users : notify(u, TRUE)
    \/ sweep_fetch \/ sweep_mark
    \/ \E ok \in BOOLEAN : sweep_notify(ok)
    \/ Crash

SpecNotify == InitReturning /\ [][NextNotify]_vars

\* The form: one new user answers the questions, presses the buttons shown so
\* far in any state and completes; every send succeeds.
FormUsers == {1}

NextForm ==
    \/ \E u \in FormUsers : cmd_start(u)
    \/ \E u \in FormUsers : Form(u)
    \/ \E u \in FormUsers : skip_problem(u) \/ attach_fetch(u) \/ details(u) \/ mark(u)
    \/ \E u \in FormUsers : notify(u, TRUE)

SpecForm == Init /\ [][NextForm]_vars

\* ------------------------------------------------------------ promo claims
PromoIds == 1..Len(promo_codes)

IsAttachedRow(r) == r.questionnaire_id # 0

IsPendingRow(r) == r.questionnaire_id = 0

RowsOf(usage, P(_)) == {i \in 1..Len(usage) : P(usage[i])}

OwnRows(usage, u) == SelectSeq(usage, LAMBDA r : r.user_id = u)

PromoPcs == {"check_promo_code", "promo_single_use", "promo_existing", "promo_insert"}

\* The step in which process_promo_code of user u returns
Redeemed(u) == task[u].pc \in PromoPcs /\ task'[u].pc = "idle" /\ crashes' = crashes

\* Promo code c is the one the message of user u names
Entered(u, c) == Upper(promo_codes[c].code) = Upper(Strip(task[u].text))

\* C1: in every reachable state a single-use promo code has at most one usage
\* row with a questionnaire, whatever the interleaving of the users' handlers.
C1_SingleUseAttachedOnce ==
    \A c \in PromoIds :
        promo_codes[c].is_single_use =>
            Cardinality(RowsOf(promo_code_usage,
                               LAMBDA r : r.promo_code_id = c /\ IsAttachedRow(r))) <= 1

HeldAtStart(u, c, P(_)) ==
    RowsOf(task[u].at_start, LAMBDA r : r.promo_code_id = c /\ P(r)) # {}

\* The handler of user u has inserted no usage row of this user
NoRowInserted(u) == OwnRows(promo_code_usage', u) = OwnRows(task[u].at_start, u)

\* C6 (as claimed): a user who holds a pending redemption of a single-use code
\* that no questionnaire carries and enters the code again is answered with
\* the description of the code, and the usage rows stay as they were.
C6_SameUserAgainApplied ==
    [][\A u \in Users, c \in PromoIds :
        ( /\ Redeemed(u) /\ Entered(u, c)
          /\ promo_codes[c].is_single_use
          /\ HeldAtStart(u, c, LAMBDA r : r.user_id = u /\ IsPendingRow(r))
          /\ ~HeldAtStart(u, c, IsAttachedRow) )
        => /\ reply' = [user_id |-> u, kind |-> "promo_applied",
                        description |-> promo_codes[c].description]
           /\ promo_code_usage' = task[u].at_start]_vars

\* C7: when another user holds a pending redemption of a single-use code,
\* entering the code is answered "already used" and inserts no usage row.
C7_OtherUserPendingAlreadyUsed ==
    [][\A u \in Users, c \in PromoIds :
        ( /\ Redeemed(u) /\ Entered(u, c)
          /\ promo_codes[c].is_single_use
          /\ HeldAtStart(u, c, LAMBDA r : r.user_id # u /\ IsPendingRow(r)) )
        => /\ reply' = [user_id |-> u, kind |-> "promo_already_used",
                        description |-> <<>>]
           /\ promo_code_usage' = promo_code_usage
           /\ NoRowInserted(u)]_vars

\* A user has just been answered "already used" for the single-use code that
\* only the other user holds, pending and on no questionnaire.
C7_Witness ==
    \E u \in Users, c \in PromoIds :
        /\ reply = [user_id |-> u, kind |-> "promo_already_used", description |-> <<>>]
        /\ promo_codes[c].is_single_use
        /\ RowsOf(promo_code_usage, LAMBDA r : r.promo_code_id = c) # {}
        /\ \A i \in RowsOf(promo_code_usage, LAMBDA r : r.promo_code_id = c) :
                promo_code_usage[i].user_id # u /\ IsPendingRow(promo_code_usage[i])

\* C8: once a questionnaire of another user carries a single-use code, entering
\* the code is answered "already used" and inserts no usage row, whatever
\* pending rows of other codes that user still holds.
C8_AttachedElsewhereAlreadyUsed ==
    [][\A u \in Users, c \in PromoIds :
        ( /\ Redeemed(u) /\ Entered(u, c)
          /\ promo_codes[c].is_single_use
          /\ HeldAtStart(u, c, LAMBDA r : r.user_id # u /\ IsAttachedRow(r)) )
        => /\ reply' = [user_id |-> u, kind |-> "promo_already_used",
                        description |-> <<>>]
           /\ promo_code_usage' = promo_code_usage
           /\ NoRowInserted(u)]_vars

\* A user has just been answered "already used" for a single-use code that a
\* questionnaire of the other user carries, while that user still holds a
\* pending row of a code that is not single-use.
C8_Witness ==
    \E u \in Users, v \in Users, c \in PromoIds, d \in PromoIds :
        /\ u # v
        /\ reply = [user_id |-> u, kind |-> "promo_already_used", description |-> <<>>]
        /\ promo_codes[c].is_single_use /\ ~promo_codes[d].is_single_use
        /\ RowsOf(promo_code_usage,
                  LAMBDA r : r.promo_code_id = c /\ r.user_id = v /\ IsAttachedRow(r)) # {}
        /\ RowsOf(promo_code_usage,
                  LAMBDA r : r.promo_code_id = d /\ r.user_id = v /\ IsPendingRow(r)) # {}
        /\ RowsOf(promo_code_usage, LAMBDA r : r.promo_code_id = c /\ r.user_id = u) = {}

\* A step of the handler process_promo_code of user u
RedeemStep(u) ==
    /\ task'[u] # task[u]
    /\ crashes' = crashes
    /\ task[u].pc \in PromoPcs \/ task'[u].pc \in PromoPcs

\* C9 (as claimed): the answer is "not found" exactly when no promo code
\* equals the text of the message, letter case ignored.
C9_NotFoundIffNoCodeEqualsText ==
    [][\A u \in Users :
        Redeemed(u) =>
            ( reply'.kind = "promo_not_found"
              <=> ~\E c \in PromoIds : Upper(promo_codes[c].code) = Upper(task[u].text) )]_vars

\* C9 (amended): the answer is "not found" exactly when no promo code equals
\* the text of the message without its leading and trailing whitespace, letter
\* case ignored; it differs from the answer "already used"; and no step of the
\* handler that gives it changes users, questionnaires, promo codes or usage rows.
C9_NotFoundIffNoCodeEqualsStrippedText ==
    [][\A u \in Users :
        /\ Redeemed(u) =>
            /\ reply'.user_id = u
            /\ reply'.kind \in {"promo_not_found", "promo_already_used", "promo_applied"}
            /\ reply'.kind = "promo_not_found" <=> ~\E c \in PromoIds : Entered(u, c)
            /\ reply'.kind = "promo_not_found" =>
                    /\ promo_code_usage' = promo_code_usage
                    /\ NoRowInserted(u)
        /\ RedeemStep(u) =>
            /\ users' = users
            /\ questionnaires' = questionnaires
            /\ promo_codes' = promo_codes]_vars

\* A user has just been answered "not found", and another one holds a row.
C9_Witness ==
    /\ reply.user_id \in Users
    /\ reply.kind = "promo_not_found"
    /\ promo_code_usage # <<>>

\* C5 (as claimed): a second attach for the same user and questionnaire, with
\* no redemption since the first, attaches nothing: it returns 0 and leaves
\* the usage rows as they were.
C5_SecondAttachIsNoOp ==
    last_attach.repeated => last_attach.attached_count = 0 /\ ~last_attach.changed

\* ------------------------------------------------- completion and delivery
QuestionnaireIds == 1..Len(questionnaires)

\* C2 (as claimed): the notification of a questionnaire is sent to every admin
\* once and no more, by the completion and the daily job together, restarts
\* included; once the questionnaire is marked, exactly once.
C2_NotifiedExactlyOnce ==
    \A q \in QuestionnaireIds, a \in Admins :
        /\ Len(sent[q][a]) <= 1
        /\ questionnaires[q].sent_to_admin => Len(sent[q][a]) = 1

\* C3 (as claimed): a user has as many questionnaires as completed
\* conversations, a conversation being completed when the last step is taken
\* while a conversation started by start_questionnaire is open, in whichever
\* of its states.
C3_OneQuestionnairePerCompletion ==
    \A u \in Users :
        Cardinality({q \in QuestionnaireIds : questionnaires[q].user_id = u}) = completions[u]

\* The questionnaire without its flag
Answers(row) == [row EXCEPT !.sent_to_admin = FALSE]

\* C4: a questionnaire is created with sent_to_admin = FALSE; the flag never
\* goes back to FALSE, so it changes once at most; it is TRUE when the
\* completion that created the questionnaire returns and when a run of the
\* daily job that fetched it ends; no other column of a questionnaire changes
\* and no questionnaire is removed.
C4_SentFlagSetOnceAndKept ==
    [][/\ Len(questionnaires') >= Len(questionnaires)
       /\ \A q \in QuestionnaireIds :
            /\ questionnaires[q].sent_to_admin => questionnaires'[q].sent_to_admin
            /\ Answers(questionnaires'[q]) = Answers(questionnaires[q])
       /\ \A q \in (Len(questionnaires) + 1)..Len(questionnaires') :
            ~questionnaires'[q].sent_to_admin
       /\ \A u \in Users :
            (task[u].pc = "mark" /\ task'[u].pc = "idle" /\ crashes' = crashes)
                => questionnaires'[task[u].questionnaire_id].sent_to_admin
       /\ (sweep.pc = "mark" /\ sweep'.pc = "idle" /\ crashes' = crashes)
                => \A q \in SeqRange(sweep.questionnaire_ids) :
                        questionnaires'[q].sent_to_admin]_vars

\* A questionnaire is marked after the daily job fetched it while its
\* completion was under way: both have sent its notification to an admin.
C4_Witness ==
    \E q \in QuestionnaireIds, a \in Admins :
        /\ questionnaires[q].sent_to_admin
        /\ Len(sent[q][a]) = 2
        /\ crashes = 0
        /\ \E p \in QuestionnaireIds : ~questionnaires[p].sent_to_admin

\* ------------------------------------------------- the numeric questions
\* The texts sent at the limits of each numeric question
BoundaryAgeTexts ==
    { <<"1">>, <<"1","5","0">>, <<"0">>, <<"1","5","1">>, <<"a">>,
      <<"-","5">>, <<" ","2","9">>, <<"0","2","9">>, <<"7",".","5">> }

BoundaryWeightTexts ==
    { <<"1">>, <<"5","0","0">>, <<"0",".","5">>, <<"5","0","0",".","1">>,
      <<"7","5",".","5">>, <<"7","5",",","5">>, <<"a">>, <<"n","a","n">> }

BoundaryWorkoutTexts == { <<"1">>, <<"7">>, <<"0">>, <<"8">>, <<"a">>, <<"+","4">> }

\* The numeric questions: one new user starts the form, again and again, and
\* answers the questions up to the number of workouts.
NextAnswers ==
    \/ \E u \in FormUsers : cmd_start(u)
    \/ \E u \in FormUsers : start_questionnaire(u)
    \/ \E u \in FormUsers, data \in {"gender_male", "gender_female"} : process_gender(u, data)
    \/ \E u \in FormUsers, text \in BoundaryAgeTexts : process_age(u, text)
    \/ \E u \in FormUsers, text \in BoundaryWeightTexts : process_weight(u, text)
    \/ \E u \in FormUsers, text \in BoundaryWorkoutTexts : process_workouts(u, text)

SpecAnswers == Init /\ [][NextAnswers]_vars

\* The decimal numeral of a natural number
RECURSIVE DecimalText(_)
DecimalText(n) ==
    IF n < 10 THEN <<Digits[n + 1]>>
    ELSE DecimalText(n \div 10) \o <<Digits[(n % 10) + 1]>>

RECURSIVE DropZeros(_)
DropZeros(t) == IF Len(t) > 1 /\ t[1] = "0" THEN DropZeros(Tail(t)) ELSE t

\* The text writes the natural number n: its numeral, with or without a plus
\* sign, leading zeros and surrounding blanks
WritesInteger(text, n) ==
    LET t == Strip(text)
        d == IF t # <<>> /\ t[1] = "+" THEN Tail(t) ELSE t
    IN  DropZeros(d) = DecimalText(n)

\* The text writes the number of h hundredths as a decimal, with a dot or
\* with a comma
WritesDecimal(text, h) ==
    LET t == Strip(text)
        whole == DecimalText(h \div 100)
        tenths == <<Digits[((h % 100) \div 10) + 1]>>
        units == <<Digits[(h % 10) + 1]>>
    IN  \/ h % 100 = 0 /\ DropZeros(t) = whole
        \/ \E sep \in {".", ","} :
                \/ h % 10 = 0 /\ DropZeros(t) = whole \o <<sep>> \o tenths
                \/ DropZeros(t) = whole \o <<sep>> \o tenths \o units

IsPrefix(s, t) == Len(s) <= Len(t) /\ SubSeq(t, 1, Len(s)) = s

\* The numbers from 1 to 500, in hundredths, whose whole part begins the text
WeightsBeginning(text) ==
    {h \in {100 * w + f : w \in {v \in 0..500 : IsPrefix(DecimalText(v), DropZeros(Strip(text)))},
                          f \in 0..99} : h >= 100 /\ h <= 50000}

\* The weights from 1 to 500, in hundredths, that the texts sent write
WeightWritten ==
    [text \in BoundaryWeightTexts |->
        {h \in WeightsBeginning(text) : WritesDecimal(text, h)}]

\* C13: at the question of the age a text is accepted exactly when it writes
\* an integer from 1 to 150: that integer is stored and the state becomes
\* waiting_weight; any other text leaves the state and the answers as they are.
C13_AgeAcceptedIffInteger1To150 ==
    [][\A u \in FormUsers, text \in BoundaryAgeTexts :
        process_age(u, text) =>
            IF \E n \in 1..150 : WritesInteger(text, n)
            THEN /\ fsm_state' = [fsm_state EXCEPT ![u] = "waiting_weight"]
                 /\ fsm_data' = [fsm_data EXCEPT ![u].age =
                                    CHOOSE n \in 1..150 : WritesInteger(text, n)]
            ELSE UNCHANGED <<fsm_state, fsm_data>>]_vars

\* The age 150 has been accepted after an earlier age had been stored.
C13_Witness ==
    \E u \in FormUsers :
        /\ fsm_state[u] = "waiting_weight"
        /\ fsm_data[u].age = 150
        /\ fsm_data[u].weight # 0
        /\ reply.kind = "ask_weight"

\* C14 (as claimed): at the question of the weight a text is accepted exactly
\* when it writes a decimal from 1 to 500, with a dot or with a comma: that
\* number is stored, the same for both spellings, and the state becomes
\* waiting_workouts; any other text leaves the state and the answers as they are.
C14_WeightAcceptedIffDecimal1To500 ==
    [][\A u \in FormUsers, text \in BoundaryWeightTexts :
        process_weight(u, text) =>
            IF WeightWritten[text] # {}
            THEN /\ fsm_state' = [fsm_state EXCEPT ![u] = "waiting_workouts"]
                 /\ fsm_data' = [fsm_data EXCEPT ![u].weight =
                                    CHOOSE h \in WeightWritten[text] : TRUE]
            ELSE UNCHANGED <<fsm_state, fsm_data>>]_vars

\* C15: at the question of the workouts a text is accepted exactly when it
\* writes an integer from 1 to 7: that integer is stored and the state becomes
\* waiting_diet; any other text leaves the state and the answers as they are.
C15_WorkoutsAcceptedIffInteger1To7 ==
    [][\A u \in FormUsers, text \in BoundaryWorkoutTexts :
        process_workouts(u, text) =>
            IF \E n \in 1..7 : WritesInteger(text, n)
            THEN /\ fsm_state' = [fsm_state EXCEPT ![u] = "waiting_diet"]
                 /\ fsm_data' = [fsm_data EXCEPT ![u].workouts_per_week =
                                    CHOOSE n \in 1..7 : WritesInteger(text, n)]
            ELSE UNCHANGED <<fsm_state, fsm_data>>]_vars

\* Seven workouts have been accepted after an earlier number had been stored
\* and a text had been rejected.
C15_Witness ==
    \E u \in FormUsers :
        /\ fsm_state[u] = "waiting_diet"
        /\ fsm_data[u].workouts_per_week = 7
        /\ fsm_data[u].age = 1
        /\ reply.kind = "ask_diet"

\* --------------------------------------------------- the order of the form
\* The states of the form in the order of its questions
FlowOrder ==
    <<"waiting_gender", "waiting_age", "waiting_weight", "waiting_workouts",
      "waiting_diet", "waiting_problem">>

\* The state that follows a state of the form; "None" once it is completed
Successor(state) ==
    LET i == CHOOSE k \in 1..Len(FlowOrder) : FlowOrder[k] = state
    IN  IF i < Len(FlowOrder) THEN FlowOrder[i + 1] ELSE "None"

\* C16 (as claimed): while a form is open, no event other than the start of
\* the form moves the state of the user anywhere but to the state that
\* follows it in the order of the questions.
C16_OnlyToTheNextQuestion ==
    [][\A u \in Users :
        (fsm_state[u] \in QuestionnaireStates /\ ~start_questionnaire(u))
            => fsm_state'[u] \in {fsm_state[u], Successor(fsm_state[u])}]_vars

\* C17 (as claimed): every questionnaire has its gender, age, weight and
\* number of workouts.
C17_MandatoryAnswersPresent ==
    \A q \in QuestionnaireIds :
        /\ questionnaires[q].gender # "None"
        /\ questionnaires[q].age # 0
        /\ questionnaires[q].weight # 0
        /\ questionnaires[q].workouts_per_week # 0

\* ------------------------------------------- a completion with promo codes
\* One new user redeems codes, answers the questions and completes forms;
\* every send succeeds; the daily job does not run.
NextIntake ==
    \/ \E u \in FormUsers : cmd_start(u)
    \/ \E u \in FormUsers : start_questionnaire(u) \/ process_gender(u, "gender_male")
    \/ \E u \in FormUsers : process_age(u, <<"2","9">>)
    \/ \E u \in FormUsers : process_weight(u, <<"7","5",",","5">>)
    \/ \E u \in FormUsers : process_workouts(u, <<"4">>)
    \/ \E u \in FormUsers : skip_diet(u) \/ skip_problem(u)
    \/ \E u \in FormUsers, text \in DietTexts : process_diet(u, text)
    \/ \E u \in FormUsers, text \in ProblemTexts : process_problem(u, text)
    \/ \E u \in FormUsers : Attach(u) \/ details(u) \/ mark(u)
    \/ \E u \in FormUsers : notify(u, TRUE)
    \/ \E u \in FormUsers : enter_promo_code(u)
    \/ \E u \in FormUsers, text \in {<<"v","i","p">>, <<"S","U","M">>} :
            process_promo_code(u, text)
    \/ \E u \in FormUsers : promo_check(u) \/ promo_single_use(u)
                                \/ promo_existing(u) \/ promo_insert(u)

SpecIntake == Init /\ [][NextIntake]_vars

\* User u holds a pending row of promo code c
HoldsPending(u, c) ==
    RowsOf(promo_code_usage,
           LAMBDA r : r.user_id = u /\ r.promo_code_id = c /\ IsPendingRow(r)) # {}

\* C11: a completion creates one questionnaire; when it returns, the
\* questionnaire carries the answers of the session (an answer skipped is
\* NULL) and is marked as sent, and for every multi-use code the user holds
\* pending, one usage row of the code carries the questionnaire and every
\* admin has been sent one notification, whose text lists the code.
C11_CompletionWithMultiUseCode ==
    [][\A u \in Users :
        /\ (task[u].pc = "idle" /\ task'[u].pc = "attach_fetch" /\ ~task'[u].direct)
            => /\ Len(questionnaires') = Len(questionnaires) + 1
               /\ task'[u].questionnaire_id = Len(questionnaires')
        /\ (task[u].pc = "mark" /\ task'[u].pc = "idle" /\ crashes' = crashes)
            => LET q == task[u].questionnaire_id
               IN  /\ questionnaires'[q] =
                        [NewQuestionnaire(u, fsm_data[u]) EXCEPT !.sent_to_admin = TRUE]
                   /\ reply'.kind = "thanks"
                   /\ \A c \in PromoIds :
                        (~promo_codes[c].is_single_use /\ HoldsPending(u, c))
                        => /\ Cardinality(RowsOf(promo_code_usage',
                                    LAMBDA r : r.promo_code_id = c
                                               /\ r.questionnaire_id = q)) = 1
                           /\ UsageRow(u, c, q) \in SeqRange(promo_code_usage')
                           /\ \A a \in Admins :
                                /\ Len(sent'[q][a]) = 1
                                /\ promo_codes[c].code
                                        \in SeqRange(sent'[q][a][1].text.promo_codes)]_vars

\* A user holding the multi-use code has completed a second form, diet and
\* problem skipped: each of the two questionnaires carries the code.
C11_Witness ==
    \E u \in Users, c \in PromoIds :
        /\ ~promo_codes[c].is_single_use
        /\ HoldsPending(u, c)
        /\ reply = [user_id |-> u, kind |-> "thanks", description |-> <<>>]
        /\ Len(questionnaires) = 2
        /\ \A q \in QuestionnaireIds :
                /\ questionnaires[q].sent_to_admin
                /\ questionnaires[q].age = 29
                /\ questionnaires[q].diet = <<>>
                /\ questionnaires[q].problem_or_injury = <<>>
                /\ UsageRow(u, c, q) \in SeqRange(promo_code_usage)

\* ------------------------------------------------- the daily job on its own
\* Returning users complete forms and the process may restart in the middle
\* of a completion; the daily job starts when no handler is under way, and no
\* handler starts and no restart happens while it runs.  A send may fail.
NextSweep ==
    \/ \E u \in Users : sweep.pc = "idle" /\ skip_problem(u)
    \/ \E u \in Users : attach_fetch(u) \/ details(u) \/ mark(u)
    \/ \E u \in Users : notify(u, TRUE)
    \/ Quiet /\ sweep_fetch
    \/ \E ok \in BOOLEAN : sweep_notify(ok)
    \/ sweep_mark
    \/ sweep.pc = "idle" /\ Crash

SpecSweep == InitReturning /\ [][NextSweep]_vars

\* The send_message calls of a log
Sends(log) ==
    {c \in (1..MaxQuestionnaires) \X Admins \X (1..(2 * MaxQuestionnaires)) :
        c[3] <= Len(log[c[1]][c[2]])}

\* C12: a run of the daily job with nothing beside it, k questionnaires
\* unsent and m admins, makes k * m send_message calls, one for every unsent
\* questionnaire and admin, and leaves every questionnaire marked as sent.
C12_SweepSendsOncePerQuestionnaireAndAdmin ==
    [][(sweep.pc = "mark" /\ sweep'.pc = "idle" /\ crashes' = crashes)
        => LET ids == SeqRange(sweep.questionnaire_ids)
           IN  /\ ids = {q \in QuestionnaireIds : ~questionnaires[q].sent_to_admin}
               /\ \A q \in QuestionnaireIds : questionnaires'[q].sent_to_admin
               /\ \A q \in 1..MaxQuestionnaires, a \in Admins :
                    Len(sent[q][a]) = Len(sweep.at_start[q][a])
                                      + (IF q \in ids THEN 1 ELSE 0)
               /\ Cardinality(Sends(sent)) - Cardinality(Sends(sweep.at_start))
                    = Cardinality(ids) * Len(get_admin_ids)]_vars

\* The daily job has ended a run over two unsent questionnaires: it has sent
\* each of them to every admin, with a failed send among them, and both are
\* marked.
C12_Witness ==
    /\ sweep.pc = "idle"
    /\ Len(questionnaires) = 2
    /\ \A q \in QuestionnaireIds :
            /\ questionnaires[q].sent_to_admin
            /\ \A a \in Admins :
                    \E i \in 1..Len(sent[q][a]) :
                        sent[q][a][i].by = "send_daily_questionnaires"
    /\ \E q \in QuestionnaireIds, a \in Admins :
            \E i \in 1..Len(sent[q][a]) : ~sent[q][a][i].ok

\* ------------------------------------- completions beside the daily job
\* A returning user redeems the multi-use code and completes forms while the
\* daily job runs; every send succeeds and the process does not restart.
NextDelivery ==
    \/ \E u \in FormUsers : enter_promo_code(u)
    \/ \E u \in FormUsers : process_promo_code(u, <<"S","U","M">>)
    \/ \E u \in FormUsers : promo_check(u) \/ promo_existing(u) \/ promo_insert(u)
    \/ \E u \in FormUsers : skip_problem(u)
    \/ \E u \in FormUsers : attach_fetch(u) \/ attach_insert(u) \/ details(u) \/ mark(u)
    \/ \E u \in FormUsers : notify(u, TRUE)
    \/ sweep_fetch \/ sweep_notify(TRUE) \/ sweep_mark

SpecDelivery == InitReturning /\ [][NextDelivery]_vars

AttachPcs == {"attach_fetch", "attach_existing", "attach_insert"}

\* The attach call that a completion makes for questionnaire q has not returned
AttachUnderWay(q) ==
    \E u \in Users : task[u].pc \in AttachPcs /\ task[u].questionnaire_id = q

\* The codes of the usage rows that carry questionnaire q
CodesAttached(usage, q) ==
    {promo_codes[usage[i].promo_code_id].code :
        i \in {j \in 1..Len(usage) : usage[j].questionnaire_id = q}}

\* C18 (as claimed): whenever a notification of a questionnaire is sent, by
\* the completion or by the daily job, the questionnaire exists, the attach
\* call of its completion has returned, and the text lists the codes attached.
C18_NotifiedAfterAttach ==
    [][\A q \in 1..MaxQuestionnaires, a \in Admins :
        Len(sent'[q][a]) > Len(sent[q][a])
        => /\ q \in QuestionnaireIds
           /\ ~AttachUnderWay(q)
           /\ SeqRange(sent'[q][a][Len(sent'[q][a])].text.promo_codes)
                = CodesAttached(promo_code_usage, q)]_vars

\* ------------------------------------------------------ who has notified
\* C19 (as claimed): with no restart, no questionnaire is notified both by
\* its completion and by the daily job.
C19_NotNotifiedByBoth ==
    crashes = 0 =>
        \A q \in QuestionnaireIds :
            \A a \in Admins, b \in Admins :
                \A i \in 1..Len(sent[q][a]), j \in 1..Len(sent[q][b]) :
                    sent[q][a][i].by = sent[q][b][j].by

\* C20: a questionnaire is marked as sent only when a send to every admin has
\* been made for it, failed or not: in every state a marked questionnaire has
\* a send to each admin in the log (no step that marks makes a send, so the
\* sends were made before the mark).
C20_MarkedOnlyAfterSends ==
    \A q \in QuestionnaireIds :
        questionnaires[q].sent_to_admin => \A a \in Admins : Len(sent[q][a]) >= 1

\* A questionnaire is marked although every send of it to one admin failed.
C20_Witness ==
    \E q \in QuestionnaireIds, a \in Admins :
        /\ questionnaires[q].sent_to_admin
        /\ Len(sent[q][a]) >= 1
        /\ \A i \in 1..Len(sent[q][a]) : ~sent[q][a][i].ok

\* --------------------------------------------- a send that fails on the way
\* Returning users complete forms; any send of a notification may fail.
NextFanout ==
    \/ \E u \in Users : skip_problem(u) \/ attach_fetch(u) \/ details(u) \/ mark(u)
    \/ \E u \in Users, ok \in BOOLEAN : notify(u, ok)

SpecFanout == InitReturning /\ [][NextFanout]_vars

\* The send_message calls for questionnaire q to admin a made by the caller
SentBy(log, q, a, by) == SelectSeq(log[q][a], LAMBDA m : m.by = by)

\* C21: a send of notify_admins_about_questionnaire that fails does not end
\* the loop: after it the loop goes on to the next admin, or to the mark after
\* the last one; when finish_questionnaire marks the questionnaire, one send
\* has been made to every admin, whichever of them failed, and the handler
\* returns with the questionnaire marked and the thanks sent.
C21_FailedSendDoesNotStopTheOthers ==
    [][\A u \in Users :
        /\ (task[u].pc = "notify" /\ task'[u] # task[u] /\ crashes' = crashes)
            => /\ task'[u].pc = IF task[u].admin < Len(get_admin_ids) THEN "notify" ELSE "mark"
               /\ task'[u].admin = IF task[u].admin < Len(get_admin_ids)
                                   THEN task[u].admin + 1 ELSE task[u].admin
        /\ (task[u].pc = "mark" /\ task'[u].pc = "idle" /\ crashes' = crashes)
            => /\ \A a \in Admins :
                    Len(SentBy(sent, task[u].questionnaire_id, a, "finish_questionnaire")) = 1
               /\ questionnaires'[task[u].questionnaire_id].sent_to_admin
               /\ reply'.kind = "thanks"]_vars

\* A completion has returned with its questionnaire marked: its send to the
\* first admin failed and its send to the last admin was made and succeeded.
C21_Witness ==
    \E q \in QuestionnaireIds :
        /\ questionnaires[q].sent_to_admin
        /\ reply.kind = "thanks"
        /\ sent[q][ADMIN_IDS[1]] # <<>> /\ ~sent[q][ADMIN_IDS[1]][1].ok
        /\ sent[q][ADMIN_IDS[Len(ADMIN_IDS)]] # <<>>
        /\ sent[q][ADMIN_IDS[Len(ADMIN_IDS)]][1].ok

\* ------------------------------------------------ the daily job as recovery
\* A returning user completes forms beside the daily job, with failed sends
\* and a restart.  The scheduler keeps starting the job and every await of
\* a run of the job returns: the CronTrigger of main.py fires every day, and
\* the database and the transport answer.  Nothing is assumed of the handlers.
NextRecovery ==
    \/ \E u \in FormUsers : skip_problem(u) \/ attach_fetch(u) \/ details(u) \/ mark(u)
    \/ \E u \in FormUsers : notify(u, TRUE)
    \/ sweep_fetch \/ sweep_mark
    \/ \E ok \in BOOLEAN : sweep_notify(ok)
    \/ Crash

SpecRecovery ==
    /\ InitReturning
    /\ [][NextRecovery]_vars
    /\ WF_vars(sweep_fetch)
    /\ WF_vars(\E ok \in BOOLEAN : sweep_notify(ok))
    /\ WF_vars(sweep_mark)

\* C22: every questionnaire is marked as sent in the end, also one whose
\* completion a restart has cut off between create_questionnaire and
\* mark_questionnaires_sent: a later run of the daily job fetches it, notifies
\* the admins and marks it.
C22_EveryQuestionnaireMarkedInTheEnd ==
    \A q \in 1..MaxQuestionnaires :
        (q \in QuestionnaireIds) ~> (q \in QuestionnaireIds /\ questionnaires[q].sent_to_admin)

\* After a restart no handler is under way, a questionnaire is left unmarked
\* with no send by its completion, and a run of the daily job started after
\* the restart has notified every admin of it and is about to mark it.
C22_Witness ==
    /\ crashes = 1
    /\ Quiet
    /\ sweep.pc = "mark"
    /\ \E q \in SeqRange(sweep.questionnaire_ids) :
            /\ ~questionnaires[q].sent_to_admin
            /\ \A a \in Admins :
                    /\ SentBy(sent, q, a, "finish_questionnaire") = <<>>
                    /\ SentBy(sent, q, a, "send_daily_questionnaires") # <<>>

\* ------------------------------------------------- one run of the daily job
\* The ids of the questionnaires a run of the daily job has fetched: those it
\* has notified and those still in its list
Fetched(sw) ==
    SeqRange(sw.questionnaire_ids) \cup {sw.questionnaires[i].id : i \in 1..Len(sw.questionnaires)}

\* C23: a run of the daily job fetches the questionnaires that are unsent at
\* its query and keeps that list to its end; it sends notifications of fetched
\* questionnaires only; its update sets the flag of every questionnaire
\* fetched, each notified to every admin by then, and of no other; with no
\* unsent questionnaire the run sends nothing and changes no table.
C23_RunMarksWhatItFetched ==
    [][/\ sweep_fetch =>
            LET unsent == {q \in QuestionnaireIds : ~questionnaires[q].sent_to_admin}
            IN  /\ Fetched(sweep') = unsent
                /\ unsent = {} => sweep' = IdleSweep
                /\ UNCHANGED <<questionnaires, promo_code_usage, sent>>
       /\ (sweep.pc # "idle" /\ sweep'.pc # "idle") => Fetched(sweep') = Fetched(sweep)
       /\ (\E ok \in BOOLEAN : sweep_notify(ok)) =>
            \A q \in 1..MaxQuestionnaires, a \in Admins :
                sent'[q][a] # sent[q][a] => q \in Fetched(sweep)
       /\ sweep_mark =>
            /\ Fetched(sweep) = SeqRange(sweep.questionnaire_ids)
            /\ \A q \in Fetched(sweep), a \in Admins :
                    Len(SentBy(sent, q, a, "send_daily_questionnaires"))
                        > Len(SentBy(sweep.at_start, q, a, "send_daily_questionnaires"))
            /\ \A q \in QuestionnaireIds :
                    questionnaires'[q].sent_to_admin
                        = (questionnaires[q].sent_to_admin \/ q \in Fetched(sweep))]_vars

\* With no restart, a run of the daily job has ended: it has notified and
\* marked the first questionnaire, and the second one, created after its
\* query, is left unmarked with no notification.
C23_Witness ==
    /\ crashes = 0
    /\ sweep.pc = "idle"
    /\ Len(questionnaires) = 2
    /\ questionnaires[1].sent_to_admin
    /\ \A a \in Admins : Len(SentBy(sent, 1, a, "send_daily_questionnaires")) = 1
    /\ ~questionnaires[2].sent_to_admin
    /\ \A a \in Admins : sent[2][a] = <<>>

\* ------------------------------------------- a fault of the database
\* A query of finish_questionnaire after create_questionnaire raises: the
\* first query or the single-use query of attach, get_questionnaire_details
\* or mark_questionnaires_sent.  finish_questionnaire catches nothing, so the
\* handler ends there: state.clear() is not reached and no thanks is sent.
\* The completion was not carried out and is not counted.
store_fault(u) ==
    /\ task[u].pc \in {"attach_fetch", "attach_existing", "details", "mark"}
    /\ ~task[u].direct
    /\ task' = [task EXCEPT ![u] = IdleTask]
    /\ completions' = [completions EXCEPT ![u] =
            IF fsm_state[u] \in QuestionnaireStates THEN @ - 1 ELSE @]
    /\ Silent
    /\ UNCHANGED <<users, buttons, questionnaires, promo_codes, user_columns,
                   link_stats, start_links, start_link_clicks, created,
                   promo_code_usage, fsm_state, fsm_data, sweep, sent,
                   crashes, last_attach>>

\* A returning user redeems codes, reaches the last question and answers it,
\* again after a fault; a query of the completion may raise.
NextFault ==
    \/ \E u \in FormUsers : skip_diet(u)
    \/ \E u \in FormUsers, text \in ProblemTexts : process_problem(u, text)
    \/ \E u \in FormUsers : Attach(u) \/ details(u) \/ mark(u)
    \/ \E u \in FormUsers : notify(u, TRUE)
    \/ \E u \in FormUsers : enter_promo_code(u)
    \/ \E u \in FormUsers, text \in {<<"v","i","p">>, <<"S","U","M">>} :
            process_promo_code(u, text)
    \/ \E u \in FormUsers : promo_check(u) \/ promo_single_use(u)
                                \/ promo_existing(u) \/ promo_insert(u)
    \/ \E u \in FormUsers : store_fault(u)

SpecFault == InitReturning /\ [][NextFault]_vars

\* C24 (as claimed): a completion that a fault of the database has cut off
\* leaves no row behind, so that with the last answer sent again the
\* conversation ends with one questionnaire: whenever no handler of a user is
\* under way, the user has one questionnaire for each completion carried out.
C24_FaultLeavesNoQuestionnaire ==
    \A u \in Users :
        Idle(u) =>
            Cardinality({q \in QuestionnaireIds : questionnaires[q].user_id = u})
                = completions[u]

\* --------------------------------------------------- the life of a session
\* C25 (as claimed): the command /start and the button that starts the form,
\* given while a form is open, leave none of the answers collected so far in
\* the FSM data of the user.
C25_RestartDiscardsAnswers ==
    [][\A u \in Users :
        (fsm_state[u] \in QuestionnaireStates /\ (cmd_start(u) \/ start_questionnaire(u)))
            => fsm_data'[u] = NoData]_vars

\* The states for which a message handler is registered
MessageStates ==
    {"waiting_age", "waiting_weight", "waiting_workouts", "waiting_diet",
     "waiting_problem", "waiting_promo_code",
     "adding_promo_code", "adding_promo_description", "editing_promo_field",
     "adding_link_slug", "adding_link_description", "editing_link_slug",
     "editing_link_description"}

\* A text message, no command, in a state for which no handler is registered:
\* the dispatcher drops the update.
unhandled_message(u, text) ==
    /\ Receives(u)
    /\ fsm_state[u] \notin MessageStates
    /\ Silent
    /\ UNCHANGED <<users, buttons, questionnaires, promo_codes, user_columns,
                   link_stats, start_links, start_link_clicks, created,
                   promo_code_usage, fsm_state, fsm_data, task, sweep, sent,
                   crashes, completions, last_attach>>

\* The texts a user may send at any time
FreeTexts ==
    AgeTexts \cup WeightTexts \cup WorkoutTexts \cup DietTexts \cup ProblemTexts \cup PromoTexts

\* A text message of user u reaches the dispatcher
Message(u) ==
    \E text \in FreeTexts :
        \/ process_age(u, text) \/ process_weight(u, text) \/ process_workouts(u, text)
        \/ process_diet(u, text) \/ process_problem(u, text)
        \/ process_promo_code(u, text)
        \/ unhandled_message(u, text)

\* The form of one new user, who also sends texts when nothing is asked
NextSession ==
    \/ \E u \in FormUsers : cmd_start(u)
    \/ \E u \in FormUsers : Form(u)
    \/ \E u \in FormUsers : skip_problem(u) \/ attach_fetch(u) \/ details(u) \/ mark(u)
    \/ \E u \in FormUsers : notify(u, TRUE)
    \/ \E u \in FormUsers, text \in FreeTexts : unhandled_message(u, text)

SpecSession == Init /\ [][NextSession]_vars

\* C26: when a completion returns, the FSM state of the user is None and the
\* FSM data hold no answer; a text message sent while the state is None
\* changes neither the session nor a table and starts no handler.
C26_SessionGoneAfterCompletion ==
    [][\A u \in Users :
        /\ (task[u].pc = "mark" /\ task'[u].pc = "idle" /\ crashes' = crashes)
            => fsm_state'[u] = "None" /\ fsm_data'[u] = NoData
        /\ (fsm_state[u] = "None" /\ Message(u))
            => UNCHANGED <<users, questionnaires, promo_code_usage, fsm_state, fsm_data,
                           task, sent>>]_vars

\* A user has completed a form with answers and has then sent a text: the
\* questionnaire is marked, the session is empty and nothing was answered.
C26_Witness ==
    \E u \in FormUsers :
        /\ Idle(u)
        /\ completions[u] = 1
        /\ Len(questionnaires) = 1
        /\ questionnaires[1].sent_to_admin /\ questionnaires[1].age # 0
        /\ fsm_state[u] = "None" /\ fsm_data[u] = NoData
        /\ reply = NoReply

\* C27 (as claimed): the promo entry leaves the session of the form as it is:
\* pressing the promo button while a form is open changes neither the FSM
\* state nor the answers, and no step of process_promo_code changes the
\* answers collected.
C27_RedeemLeavesSessionAlone ==
    [][\A u \in Users :
        /\ (fsm_state[u] \in QuestionnaireStates /\ enter_promo_code(u))
            => fsm_state'[u] = fsm_state[u] /\ fsm_data'[u] = fsm_data[u]
        /\ RedeemStep(u) => fsm_data'[u] = fsm_data[u]]_vars

\* -------------------------------------------------------- two users at once
\* An update of user u, or the next step of the handler of user u
UserEvent(u) ==
    \/ process_gender(u, "gender_male")
    \/ skip_diet(u) \/ skip_problem(u)
    \/ attach_fetch(u) \/ attach_insert(u) \/ details(u) \/ notify(u, TRUE) \/ mark(u)
    \/ enter_promo_code(u)
    \/ process_promo_code(u, <<"S","U","M">>)
    \/ promo_check(u) \/ promo_existing(u) \/ promo_insert(u)

\* Two returning users answer questions, redeem codes and complete forms,
\* their handlers interleaved at every await.
NextUsers == \E u \in Users : UserEvent(u)

SpecUsers == InitReturning /\ [][NextUsers]_vars

\* The questionnaires of user u, with their ids
OwnQuestionnaires(table, u) ==
    {<<q, table[q]>> : q \in {p \in 1..Len(table) : table[p].user_id = u}}

\* The usage rows that carry a questionnaire of user u
RowsOnQuestionnairesOf(usage, table, u) ==
    SelectSeq(usage, LAMBDA r : r.questionnaire_id # 0 /\ table[r.questionnaire_id].user_id = u)

\* C28: an update of a user, and every step of its handler, leaves the
\* session of every other user as it is, and creates or changes no
\* questionnaire and no usage row of another user and attaches nothing to a
\* questionnaire of another user.
C28_UsersIndependent ==
    [][\A a \in Users :
        UserEvent(a) =>
            \A b \in Users \ {a} :
                /\ fsm_state'[b] = fsm_state[b]
                /\ fsm_data'[b] = fsm_data[b]
                /\ task'[b] = task[b]
                /\ OwnQuestionnaires(questionnaires', b) = OwnQuestionnaires(questionnaires, b)
                /\ OwnRows(promo_code_usage', b) = OwnRows(promo_code_usage, b)
                /\ RowsOnQuestionnairesOf(promo_code_usage', questionnaires', b)
                        = RowsOnQuestionnairesOf(promo_code_usage, questionnaires, b)]_vars

\* A user has completed a form that carries a code while the other user, who
\* holds a pending code, is in the middle of a form with a gender stored.
C28_Witness ==
    \E a \in Users, b \in Users :
        /\ a # b
        /\ reply = [user_id |-> a, kind |-> "thanks", description |-> <<>>]
        /\ \E q \in QuestionnaireIds :
                /\ questionnaires[q].user_id = a
                /\ \E i \in 1..Len(promo_code_usage) :
                        promo_code_usage[i].questionnaire_id = q
        /\ fsm_state[b] = "waiting_age" /\ fsm_data[b].gender # "None"
        /\ \E i \in 1..Len(promo_code_usage) :
                promo_code_usage[i].user_id = b /\ promo_code_usage[i].questionnaire_id = 0

\* ------------------------------------- pending rows of other users, attach
\* C29 (as claimed): entering a single-use code that no questionnaire carries
\* is answered with the description of the code and leaves the user with a
\* pending row of it, whoever else holds a pending row of the code.
C29_UnattachedSingleUseApplied ==
    [][\A u \in Users, c \in PromoIds :
        ( /\ Redeemed(u) /\ Entered(u, c)
          /\ promo_codes[c].is_single_use
          /\ ~HeldAtStart(u, c, IsAttachedRow) )
        => /\ reply' = [user_id |-> u, kind |-> "promo_applied",
                        description |-> promo_codes[c].description]
           /\ UsageRow(u, c, 0) \in SeqRange(promo_code_usage')]_vars

\* C30 (as claimed): when attach returns, no code it has attached to the
\* questionnaire is still pending for the user, so that a code redeemed once
\* is carried by one questionnaire of the user at most.
C30_AttachedNoLongerPending ==
    [][\A u \in Users, c \in PromoIds :
        ( /\ task[u].pc \in AttachPcs /\ task'[u].pc \notin AttachPcs
          /\ crashes' = crashes
          /\ UsageRow(u, c, task[u].questionnaire_id) \in SeqRange(promo_code_usage') )
        => UsageRow(u, c, 0) \notin SeqRange(promo_code_usage')]_vars

\* ------------------------------------------------ what attach returns
\* The step in which a direct call of attach by user u returns
AttachReturns(u) ==
    /\ task[u].pc \in AttachPcs /\ task[u].direct
    /\ task'[u].pc = "idle"
    /\ crashes' = crashes

\* C31: attach returns the number of usage rows it has inserted, each a row of
\* the user on the questionnaire given; a pending single-use code that a
\* questionnaire carried when the call began gets no row and is not counted;
\* for a user with no pending row it returns 0 and leaves the table as it was.
C31_AttachReturnsNumberAttached ==
    [][\A u \in Users :
        AttachReturns(u) =>
            LET before == task[u].at_start
                q == task[u].questionnaire_id
                added == SubSeq(promo_code_usage', Len(before) + 1, Len(promo_code_usage'))
            IN  /\ SubSeq(promo_code_usage', 1, Len(before)) = before
                /\ last_attach'.attached_count = Len(added)
                /\ \A i \in 1..Len(added) :
                        /\ added[i].user_id = u /\ added[i].questionnaire_id = q
                        /\ RowsOf(before, LAMBDA r : r.user_id = u /\ IsPendingRow(r)
                                        /\ r.promo_code_id = added[i].promo_code_id) # {}
                /\ \A c \in PromoIds :
                        ( /\ promo_codes[c].is_single_use
                          /\ RowsOf(before, LAMBDA r : r.promo_code_id = c /\ IsAttachedRow(r)) # {} )
                        => \A i \in 1..Len(added) : added[i].promo_code_id # c
                /\ RowsOf(before, LAMBDA r : r.user_id = u /\ IsPendingRow(r)) = {}
                        => last_attach'.attached_count = 0 /\ promo_code_usage' = before]_vars

\* A call of attach has returned 1 for a user who holds two pending codes: it
\* has attached the multi-use code and has skipped the single-use code, which
\* a questionnaire carried already.
C31_Witness ==
    \E u \in Users, c \in PromoIds, d \in PromoIds :
        /\ last_attach.user_id = u /\ last_attach.attached_count = 1
        /\ promo_codes[c].is_single_use /\ ~promo_codes[d].is_single_use
        /\ HoldsPending(u, c) /\ HoldsPending(u, d)
        /\ UsageRow(u, d, last_attach.questionnaire_id) \in SeqRange(promo_code_usage)
        /\ UsageRow(u, c, last_attach.questionnaire_id) \notin SeqRange(promo_code_usage)
        /\ RowsOf(promo_code_usage, LAMBDA r : r.promo_code_id = c /\ IsAttachedRow(r)) # {}

\* ------------------------------------------- an INSERT of attach that fails
\* The INSERT of attach raising, the exception propagating out of the method
\* and of finish_questionnaire
attach_insert_raises(u) ==
    /\ task[u].pc = "attach_insert"
    /\ task' = [task EXCEPT ![u] = IdleTask]
    /\ Silent
    /\ UNCHANGED <<users, buttons, questionnaires, promo_codes, user_columns,
                   link_stats, start_links, start_link_clicks, created,
                   promo_code_usage, fsm_state, fsm_data, sweep, sent,
                   crashes, completions, last_attach>>

\* attach: the INSERT raises; the bare except passes, attached_count is not
\* incremented and the loop goes on with the next pending row.
attach_insert_fault(u) ==
    /\ task[u].pc = "attach_insert"
    /\ AttachContinue(u, [task[u] EXCEPT !.promo_usages = Tail(@)], promo_code_usage)
    /\ Silent
    /\ UNCHANGED <<users, buttons, questionnaires, promo_codes, user_columns,
                   link_stats, start_links, start_link_clicks, created,
                   promo_code_usage, fsm_state, fsm_data, sweep, sent,
                   crashes, completions>>

\* A returning user redeems the two codes and completes forms; an INSERT of
\* attach may fail.
NextAttachFault ==
    \/ \E u \in FormUsers : enter_promo_code(u)
    \/ \E u \in FormUsers, text \in {<<"v","i","p">>, <<"S","U","M">>} :
            process_promo_code(u, text)
    \/ \E u \in FormUsers : promo_check(u) \/ promo_single_use(u)
                                \/ promo_existing(u) \/ promo_insert(u)
    \/ \E u \in FormUsers : skip_problem(u) \/ Attach(u) \/ details(u) \/ mark(u)
    \/ \E u \in FormUsers : notify(u, TRUE)
    \/ \E u \in FormUsers : attach_insert_fault(u)

SpecAttachFault == InitReturning /\ [][NextAttachFault]_vars

\* C32: an INSERT of attach that fails ends neither attach nor the
\* completion: the handler goes on with the pending rows that are left, or
\* with get_questionnaire_details after the last one, no table changed; and
\* when the completion returns the questionnaire is marked, every admin has
\* been sent its notification and the user is thanked.
C32_FailedAttachIsSwallowed ==
    [][\A u \in Users :
        /\ (task[u].pc = "attach_insert" /\ task'[u] # task[u]
             /\ promo_code_usage' = promo_code_usage)
            => /\ task'[u].promo_usages = Tail(task[u].promo_usages)
               /\ task'[u].attached_count = task[u].attached_count
               /\ task'[u].questionnaire_id = task[u].questionnaire_id
               /\ task'[u].pc = IF task'[u].promo_usages = <<>> THEN "details"
                                ELSE IF Head(task'[u].promo_usages).is_single_use
                                THEN "attach_existing" ELSE "attach_insert"
               /\ UNCHANGED <<questionnaires, fsm_state, fsm_data>>
        /\ (task[u].pc = "mark" /\ task'[u].pc = "idle")
            => /\ questionnaires'[task[u].questionnaire_id].sent_to_admin
               /\ \A a \in Admins : sent[task[u].questionnaire_id][a] # <<>>
               /\ reply'.kind = "thanks"]_vars

\* A completion has returned, its questionnaire marked and notified, for a
\* user who holds the two codes pending: the INSERT of the first one failed,
\* so the questionnaire carries the second one only.
C32_Witness ==
    \E u \in FormUsers, c \in PromoIds, d \in PromoIds :
        /\ reply = [user_id |-> u, kind |-> "thanks", description |-> <<>>]
        /\ Len(questionnaires) = 1 /\ questionnaires[1].sent_to_admin
        /\ \A a \in Admins : sent[1][a] # <<>>
        /\ promo_code_usage = <<UsageRow(u, c, 0), UsageRow(u, d, 0), UsageRow(u, d, 1)>>

\* ------------------------------------------------ whose questionnaire
\* C36: every step leaves each usage row that carries a questionnaire on a
\* questionnaire of the user of the row, whatever the interleaving of
\* redemptions and completions of the users; and a usage row inserted by
\* process_promo_code carries no questionnaire.
C36_AttachedToOwnQuestionnaire ==
    [][/\ \A i \in 1..Len(promo_code_usage') :
            promo_code_usage'[i].questionnaire_id # 0
            => /\ promo_code_usage'[i].questionnaire_id \in 1..Len(questionnaires')
               /\ questionnaires'[promo_code_usage'[i].questionnaire_id].user_id
                    = promo_code_usage'[i].user_id
       /\ \A u \in Users :
            (task[u].pc \in PromoPcs /\ task'[u] # task[u])
            => \A i \in (Len(promo_code_usage) + 1)..Len(promo_code_usage') :
                    promo_code_usage'[i] = UsageRow(u, task[u].promo.id, 0)]_vars

\* Each of the two users has a questionnaire that carries a code, and one of
\* them still holds a pending row.
C36_Witness ==
    /\ \A u \in Users :
            \E i \in 1..Len(promo_code_usage) :
                /\ promo_code_usage[i].user_id = u
                /\ promo_code_usage[i].questionnaire_id # 0
    /\ \E i \in 1..Len(promo_code_usage) : promo_code_usage[i].questionnaire_id = 0
    /\ Quiet

\* ------------------------------------------- answers of an earlier run
\* The answers of a questionnaire
AnswersOf(row) ==
    [gender |-> row.gender, age |-> row.age, weight |-> row.weight,
     workouts_per_week |-> row.workouts_per_week, diet |-> row.diet,
     problem_or_injury |-> row.problem_or_injury]

\* C37 (as claimed), for a completion right after the start of the form: the
\* state waiting_gender is entered by start_questionnaire alone and left by the
\* first answer, so a questionnaire created in that state has no answer
\* collected since the start, and holds none.
C37_NoAnswerOfAnEarlierRun ==
    [][\A u \in Users :
        (fsm_state[u] = "waiting_gender" /\ Len(questionnaires') = Len(questionnaires) + 1
         /\ questionnaires'[Len(questionnaires')].user_id = u)
            => AnswersOf(questionnaires'[Len(questionnaires')]) = AnswersOf(NoData)]_vars

\* ------------------------------------------------------- first contact
\* from_user of a message: a user may set and change the username and the name
Profiles ==
    { [username |-> <<>>, first_name |-> <<"n">>],
      [username |-> <<"u">>, first_name |-> <<"m">>] }

\* The second word of the text of a /start message: a slug of a link, in
\* either case, a slug of no link, tags, a slug with a tag, a query after
\* "?", a field with a blank value
StartArgs ==
    { <<"v","k">>, <<"V","K">>, <<"z">>,
      <<"u","t","m","_","s","o","u","r","c","e","=","a","d">>,
      <<"s","t","a","r","t","=","V","k","&","u","t","m","_","m","e","d","i","u","m","=","m">>,
      <<"?","u","t","m","_","c","a","m","p","a","i","g","n","=","c">>,
      <<"x","=">> }

\* The users send /start, with and without a payload, before and after they
\* have a row, and start the form; the process restarts.
NextContact ==
    \/ \E u \in Users : cmd_start(u)
    \/ \E u \in Users, from_user \in Profiles, args \in StartArgs :
            cmd_start_payload(u, from_user.username, from_user.first_name, args)
    \/ \E u \in Users : click_insert(u)
    \/ \E u \in Users : start_questionnaire(u)
    \/ Crash

SpecContact == Init /\ [][NextContact]_vars

\* The row get_or_create_user inserts for a /start message
RowOf(from_user, args) ==
    [username |-> from_user.username, first_name |-> from_user.first_name,
     utm_source |-> parse_start_payload(args).utm_source,
     utm_medium |-> parse_start_payload(args).utm_medium,
     utm_campaign |-> parse_start_payload(args).utm_campaign]

\* The rows of the /start messages
StartRows == {RowOf(from_user, args) : from_user \in Profiles, args \in StartArgs}
               \cup {PlainUser}

\* A step of cmd_start for a message of the user: it ends with the welcome, or
\* goes on to the INSERT of the click
StartOf(u) ==
    /\ Idle(u)
    /\ \/ reply' = [user_id |-> u, kind |-> "welcome", description |-> <<>>]
       \/ task'[u].pc = "click_insert"

\* C33: a /start of a user with no row creates the row with the tags of the
\* message and counts one call with created = True; in every step, a user that
\* has a row keeps it with every column unchanged, whatever the tags of the
\* message, and no call returns created = True for it; the row of no user is
\* deleted; a row of link_stats is never changed or removed.
C33_UserCreatedOnceAndKept ==
    [][/\ \A u \in Users :
            (StartOf(u) /\ u \notin users)
                => /\ u \in users'
                   /\ user_columns'[u] \in StartRows
                   /\ created'[u] = created[u] + 1
       /\ \A u \in Users :
            /\ u \in users
                => /\ u \in users'
                   /\ user_columns'[u] = user_columns[u]
                   /\ created'[u] = created[u]
            /\ u \notin users
                => \/ u \notin users' /\ user_columns'[u] = NoUser /\ created'[u] = created[u]
                   \/ u \in users' /\ created'[u] = created[u] + 1
       /\ Len(link_stats') >= Len(link_stats)
       /\ \A i \in 1..Len(link_stats) : link_stats'[i] = link_stats[i]]_vars

\* A user whose row has the tag of the first message, after a later /start
\* with the slug of a link, which recorded the click and changed no tag
C33_Witness ==
    \E u \in Users :
        /\ u \in users
        /\ user_columns[u].utm_source = <<"a","d">>
        /\ user_columns[u].utm_medium = <<>>
        /\ created[u] = 1
        /\ \E i \in 1..Len(start_link_clicks) : start_link_clicks[i].user_id = u
        /\ Idle(u)

\* --------------------------------------------------- the admin panel
is_admin(user_id) == \E i \in 1..Len(get_admin_ids) : get_admin_ids[i] = user_id

\* The callback data of a button for a row: f"admin_promo_{promo['id']}"
Data(prefix, id) == prefix \o ToString(id)

\* A callback query of an operator carries the data of a button the bot has
\* shown to the operator.  A chat of the admin panel may have other members
\* and a client may send any data: a user that is no operator sends any data.
Callback(u, data) == Idle(u) /\ (data \in buttons[u] \/ ~is_admin(u))

\* What no handler of the admin panel touches
AdminFrame ==
    UNCHANGED <<users, questionnaires, promo_code_usage, task, sweep, sent, crashes,
                completions, last_attach, user_columns, link_stats, created>>

\* if not is_admin(...): callback.answer("Нет доступа"); return
NoAccess(u) ==
    /\ Say(u, "no_access")
    /\ UNCHANGED <<buttons, fsm_state, fsm_data, promo_codes, start_links,
                   start_link_clicks>>

\* The ids of the rows of a table that are there
Live(table, gone) == {i \in 1..Len(table) : table[i] # gone}

\* The keyboard of the admin panel
AdminKeyboard == {"admin_promo_codes", "admin_links"}

\* admin_panel: the command /admin
admin_panel(u) ==
    /\ Receives(u)
    /\ IF ~is_admin(u)
       THEN NoAccess(u)
       ELSE /\ Say(u, "admin_panel")
            /\ Shows(u, AdminKeyboard)
            /\ UNCHANGED <<fsm_state, fsm_data, promo_codes, start_links,
                           start_link_clicks>>
    /\ AdminFrame

\* admin_back
admin_back(u) ==
    /\ Callback(u, "admin_back")
    /\ IF ~is_admin(u)
       THEN NoAccess(u)
       ELSE /\ Say(u, "admin_panel")
            /\ Shows(u, AdminKeyboard)
            /\ UNCHANGED <<fsm_state, fsm_data, promo_codes, start_links,
                           start_link_clicks>>
    /\ AdminFrame

\* admin_promo_codes_menu: a button for every promo code
admin_promo_codes_menu(u) ==
    /\ Callback(u, "admin_promo_codes")
    /\ IF ~is_admin(u)
       THEN NoAccess(u)
       ELSE /\ Say(u, "promo_codes_menu")
            /\ Shows(u, {Data("admin_promo_", id) : id \in Live(promo_codes, NoPromoCode)}
                            \cup {"admin_add_promo", "admin_back"})
            /\ UNCHANGED <<fsm_state, fsm_data, promo_codes, start_links,
                           start_link_clicks>>
    /\ AdminFrame

\* admin_add_promo_start
admin_add_promo_start(u) ==
    /\ Callback(u, "admin_add_promo")
    /\ IF ~is_admin(u)
       THEN NoAccess(u)
       ELSE /\ fsm_state' = [fsm_state EXCEPT ![u] = "adding_promo_code"]
            /\ Say(u, "ask_new_promo_code")
            /\ UNCHANGED <<buttons, fsm_data, promo_codes, start_links,
                           start_link_clicks>>
    /\ AdminFrame

\* admin_add_promo_code: registered for the state alone, with no check of the
\* sender
admin_add_promo_code(u, text) ==
    /\ Receives(u)
    /\ fsm_state[u] = "adding_promo_code"
    /\ fsm_data' = [fsm_data EXCEPT ![u].promo_code = Upper(Strip(text))]
    /\ fsm_state' = [fsm_state EXCEPT ![u] = "adding_promo_description"]
    /\ Say(u, "ask_promo_description")
    /\ UNCHANGED <<buttons, promo_codes, start_links, start_link_clicks>>
    /\ AdminFrame

\* admin_add_promo_description: registered for the state alone, with no check
\* of the sender
admin_add_promo_description(u, text) ==
    /\ Receives(u)
    /\ fsm_state[u] = "adding_promo_description"
    /\ fsm_data' = [fsm_data EXCEPT ![u].description = Strip(text)]
    /\ fsm_state' = [fsm_state EXCEPT ![u] = "adding_promo_type"]
    /\ Say(u, "ask_promo_type")
    /\ Shows(u, {"promo_single_yes", "promo_single_no"})
    /\ UNCHANGED <<promo_codes, start_links, start_link_clicks>>
    /\ AdminFrame

\* The constraint code VARCHAR(100) UNIQUE of promo_codes, for a row that is to
\* hold the code: another row holds it
CodeTaken(codes, code, promo_id) ==
    \E i \in Live(codes, NoPromoCode) : i # promo_id /\ codes[i].code = code

\* The outcome of a statement: the table after it, or the exception of a
\* constraint and the table as it was
Done(table) == [raises |-> FALSE, table |-> table]

Raised(table) == [raises |-> TRUE, table |-> table]

\* create_promo_code with the INSERT on a table that has no constraint
create_promo_code_unconstrained(codes, code, description, is_single_use) ==
    Done(Append(codes, [code |-> Upper(code), description |-> description,
                        is_single_use |-> is_single_use]))

\* create_promo_code: INSERT ... VALUES (UPPER($1), $2, $3)
create_promo_code(codes, code, description, is_single_use) ==
    IF CodeTaken(codes, Upper(code), 0)
    THEN Raised(codes)
    ELSE Done(Append(codes, [code |-> Upper(code), description |-> description,
                             is_single_use |-> is_single_use]))

\* admin_add_promo_finish: registered for the callback data alone; a missing
\* key of the FSM data and the exception of the INSERT are caught in the try;
\* state.clear() in either case
admin_add_promo_finish(u, data) ==
    /\ Callback(u, data)
    /\ data \in {"promo_single_yes", "promo_single_no"}
    /\ is_admin(u) => Len(promo_codes) < MaxPromoCodes
    /\ IF ~is_admin(u)
       THEN NoAccess(u)
       ELSE LET done == IF fsm_data[u].promo_code = <<>> \/ fsm_data[u].description = <<>>
                        THEN Raised(promo_codes)
                        ELSE create_promo_code(promo_codes, fsm_data[u].promo_code,
                                               fsm_data[u].description,
                                               data = "promo_single_yes")
            IN  /\ promo_codes' = done.table
                /\ Say(u, IF done.raises THEN "promo_create_error" ELSE "promo_created")
                /\ Clear(u)
                /\ UNCHANGED <<buttons, start_links, start_link_clicks>>
    /\ AdminFrame

\* admin_promo_details
admin_promo_details(u, promo_id) ==
    /\ Callback(u, Data("admin_promo_", promo_id))
    /\ IF ~is_admin(u)
       THEN NoAccess(u)
       ELSE /\ IF promo_id \in Live(promo_codes, NoPromoCode)
               THEN /\ Say(u, "promo_details")
                    /\ Shows(u, {Data("admin_edit_promo_", promo_id),
                                 Data("admin_delete_promo_", promo_id),
                                 "admin_promo_codes"})
               ELSE /\ Say(u, "promo_not_found")
                    /\ UNCHANGED buttons
            /\ UNCHANGED <<fsm_state, fsm_data, promo_codes, start_links,
                           start_link_clicks>>
    /\ AdminFrame

\* delete_promo_code on a table no row refers to: the row goes whatever
\* promo_code_usage holds
delete_promo_code_unreferenced(codes, usage, promo_id) ==
    Done([i \in 1..Len(codes) |-> IF i = promo_id THEN NoPromoCode ELSE codes[i]])

\* delete_promo_code: DELETE FROM promo_codes WHERE id = $1, with the exception
\* of promo_code_id REFERENCES promo_codes(id) when a row of promo_code_usage
\* has the id
delete_promo_code(codes, usage, promo_id) ==
    IF \E i \in 1..Len(usage) : usage[i].promo_code_id = promo_id
    THEN Raised(codes)
    ELSE Done([i \in 1..Len(codes) |-> IF i = promo_id THEN NoPromoCode ELSE codes[i]])

\* admin_delete_promo
admin_delete_promo(u, promo_id) ==
    /\ Callback(u, Data("admin_delete_promo_", promo_id))
    /\ IF ~is_admin(u)
       THEN NoAccess(u)
       ELSE LET done == delete_promo_code(promo_codes, promo_code_usage, promo_id)
            IN  /\ promo_codes' = done.table
                /\ Say(u, IF done.raises THEN "promo_delete_error" ELSE "promo_deleted")
                /\ UNCHANGED <<buttons, fsm_state, fsm_data, start_links,
                               start_link_clicks>>
    /\ AdminFrame

\* admin_edit_promo_start
admin_edit_promo_start(u, promo_id) ==
    /\ Callback(u, Data("admin_edit_promo_", promo_id))
    /\ IF ~is_admin(u)
       THEN NoAccess(u)
       ELSE /\ fsm_data' = [fsm_data EXCEPT ![u].promo_id = promo_id]
            /\ fsm_state' = [fsm_state EXCEPT ![u] = "editing_promo_code"]
            /\ Say(u, "ask_field")
            /\ Shows(u, {"edit_field_code", "edit_field_description",
                         "edit_field_type", "admin_promo_codes"})
            /\ UNCHANGED <<promo_codes, start_links, start_link_clicks>>
    /\ AdminFrame

\* admin_edit_promo_field
admin_edit_promo_field(u, field) ==
    /\ Callback(u, "edit_field_" \o field)
    /\ field \in {"code", "description", "type"}
    /\ IF ~is_admin(u)
       THEN NoAccess(u)
       ELSE /\ fsm_data' = [fsm_data EXCEPT ![u].editing_field = field]
            /\ fsm_state' = [fsm_state EXCEPT ![u] = "editing_promo_field"]
            /\ Say(u, "ask_" \o field)
            /\ IF field = "type"
               THEN Shows(u, {"set_single_yes", "set_single_no"})
               ELSE UNCHANGED buttons
            /\ UNCHANGED <<promo_codes, start_links, start_link_clicks>>
    /\ AdminFrame

\* update_promo_code(promo_id, code=...): UPDATE ... SET code = UPPER($1)
\* WHERE id = $2; no row is updated when the id is not there
update_promo_code_code(codes, promo_id, code) ==
    IF promo_id \notin Live(codes, NoPromoCode) THEN Done(codes)
    ELSE IF CodeTaken(codes, Upper(code), promo_id) THEN Raised(codes)
    ELSE Done([codes EXCEPT ![promo_id].code = Upper(code)])

\* update_promo_code(promo_id, description=...)
update_promo_code_description(codes, promo_id, description) ==
    IF promo_id \notin Live(codes, NoPromoCode) THEN Done(codes)
    ELSE Done([codes EXCEPT ![promo_id].description = description])

\* update_promo_code(promo_id, is_single_use=...)
update_promo_code_type(codes, promo_id, is_single_use) ==
    IF promo_id \notin Live(codes, NoPromoCode) THEN Done(codes)
    ELSE Done([codes EXCEPT ![promo_id].is_single_use = is_single_use])

\* The handler returns at its check of the sender, or ends with the exception
\* of a missing key of the FSM data, which it does not catch: nothing is
\* answered and the state stays.
Dropped(u) ==
    /\ Silent
    /\ UNCHANGED <<buttons, fsm_state, fsm_data, promo_codes, start_links,
                   start_link_clicks>>

\* admin_edit_promo_save: registered for the state; returns for a sender that
\* is no operator; data['promo_id'] is read before the try
admin_edit_promo_save(u, text) ==
    /\ Receives(u)
    /\ fsm_state[u] = "editing_promo_field"
    /\ IF ~is_admin(u) \/ fsm_data[u].promo_id = 0 \/ fsm_data[u].editing_field = "None"
       THEN Dropped(u)
       ELSE LET field == fsm_data[u].editing_field
                done ==
                    IF field = "code"
                    THEN update_promo_code_code(promo_codes, fsm_data[u].promo_id,
                                                Upper(Strip(text)))
                    ELSE IF field = "description"
                    THEN update_promo_code_description(promo_codes, fsm_data[u].promo_id,
                                                       Strip(text))
                    ELSE Done(promo_codes)
            IN  /\ promo_codes' = done.table
                /\ IF done.raises THEN Say(u, "promo_update_error")
                   ELSE IF field = "type" THEN Silent
                   ELSE Say(u, "promo_updated")
                /\ Clear(u)
                /\ UNCHANGED <<buttons, start_links, start_link_clicks>>
    /\ AdminFrame

\* admin_edit_promo_type: registered for the callback data alone;
\* data['promo_id'] is read before the try
admin_edit_promo_type(u, data) ==
    /\ Callback(u, data)
    /\ data \in {"set_single_yes", "set_single_no"}
    /\ IF ~is_admin(u)
       THEN NoAccess(u)
       ELSE IF fsm_data[u].promo_id = 0
       THEN Dropped(u)
       ELSE /\ promo_codes' = update_promo_code_type(promo_codes, fsm_data[u].promo_id,
                                                     data = "set_single_yes").table
            /\ Say(u, "promo_updated")
            /\ Clear(u)
            /\ UNCHANGED <<buttons, start_links, start_link_clicks>>
    /\ AdminFrame

\* is_valid_slug: re.fullmatch(r"[a-zA-Z0-9_-]+", slug)
is_valid_slug(slug) ==
    /\ slug # <<>>
    /\ \A i \in 1..Len(slug) :
            \/ \E k \in 1..26 : LowerAlpha[k] = slug[i] \/ UpperAlpha[k] = slug[i]
            \/ IsDigit(slug[i])
            \/ slug[i] \in {"_", "-"}

\* The constraint slug VARCHAR(100) UNIQUE of start_links, for a row that is
\* to hold the slug: another row holds it
SlugTaken(links, slug, link_id) ==
    \E i \in Live(links, NoStartLink) : i # link_id /\ links[i].slug = slug

\* create_start_link: INSERT ... VALUES (slug.lower(), description); a slug
\* that is None has no lower()
create_start_link(links, slug, description) ==
    IF slug = <<>> \/ SlugTaken(links, Lower(slug), 0)
    THEN Raised(links)
    ELSE Done(Append(links, [slug |-> Lower(slug), description |-> description]))

\* update_start_link(link_id, slug=...): UPDATE ... SET slug = LOWER($1)
\* WHERE id = $2; no row is updated when the id is not there
update_start_link_slug(links, link_id, slug) ==
    IF link_id \notin Live(links, NoStartLink) THEN Done(links)
    ELSE IF SlugTaken(links, Lower(slug), link_id) THEN Raised(links)
    ELSE Done([links EXCEPT ![link_id].slug = Lower(slug)])

\* update_start_link(link_id, description=...)
update_start_link_description(links, link_id, description) ==
    IF link_id \notin Live(links, NoStartLink) THEN Done(links)
    ELSE Done([links EXCEPT ![link_id].description = description])

\* start_link_id with no reference to start_links: the clicks of a deleted
\* link stay
ClicksKept(clicks, link_id) == clicks

\* start_link_id REFERENCES start_links(id) ON DELETE CASCADE: the clicks of
\* the deleted link are deleted with it
ClicksCascade(clicks, link_id) ==
    [i \in 1..Len(clicks) |->
        IF clicks[i].start_link_id = link_id THEN NoClick ELSE clicks[i]]

\* delete_start_link: DELETE FROM start_links WHERE id = $1
delete_start_link(links, link_id) ==
    [i \in 1..Len(links) |-> IF i = link_id THEN NoStartLink ELSE links[i]]

\* admin_links_menu: a button for every link
admin_links_menu(u) ==
    /\ Callback(u, "admin_links")
    /\ IF ~is_admin(u)
       THEN NoAccess(u)
       ELSE /\ Say(u, "links_menu")
            /\ Shows(u, {Data("admin_link_", id) : id \in Live(start_links, NoStartLink)}
                            \cup {"admin_add_link", "admin_back"})
            /\ UNCHANGED <<fsm_state, fsm_data, promo_codes, start_links,
                           start_link_clicks>>
    /\ AdminFrame

\* admin_add_link_start with no check of the sender
admin_add_link_start_unchecked(u) ==
    /\ Callback(u, "admin_add_link")
    /\ fsm_state' = [fsm_state EXCEPT ![u] = "adding_link_slug"]
    /\ Say(u, "ask_link_slug")
    /\ UNCHANGED <<buttons, fsm_data, promo_codes, start_links, start_link_clicks>>
    /\ AdminFrame

\* admin_add_link_start
admin_add_link_start(u) ==
    /\ Callback(u, "admin_add_link")
    /\ IF ~is_admin(u)
       THEN NoAccess(u)
       ELSE /\ fsm_state' = [fsm_state EXCEPT ![u] = "adding_link_slug"]
            /\ Say(u, "ask_link_slug")
            /\ UNCHANGED <<buttons, fsm_data, promo_codes, start_links,
                           start_link_clicks>>
    /\ AdminFrame

\* admin_add_link_slug: registered for the state alone, with no check of the
\* sender
admin_add_link_slug(u, text) ==
    /\ Receives(u)
    /\ fsm_state[u] = "adding_link_slug"
    /\ IF ~is_valid_slug(Lower(Strip(text)))
       THEN /\ Say(u, "invalid_slug")
            /\ UNCHANGED <<fsm_state, fsm_data>>
       ELSE /\ fsm_data' = [fsm_data EXCEPT ![u].link_slug = Lower(Strip(text))]
            /\ fsm_state' = [fsm_state EXCEPT ![u] = "adding_link_description"]
            /\ Say(u, "ask_link_description")
    /\ UNCHANGED <<buttons, promo_codes, start_links, start_link_clicks>>
    /\ AdminFrame

\* admin_add_link_description: registered for the state alone, with no check
\* of the sender; the exception of the INSERT is caught; state.clear()
admin_add_link_description(u, text) ==
    /\ Receives(u)
    /\ fsm_state[u] = "adding_link_description"
    /\ Len(start_links) < MaxLinks
    /\ LET done == create_start_link(start_links, fsm_data[u].link_slug, Strip(text))
       IN  /\ start_links' = done.table
           /\ Say(u, IF done.raises THEN "link_create_error" ELSE "link_created")
    /\ Clear(u)
    /\ UNCHANGED <<buttons, promo_codes, start_link_clicks>>
    /\ AdminFrame

\* admin_link_details
admin_link_details(u, link_id) ==
    /\ Callback(u, Data("admin_link_", link_id))
    /\ IF ~is_admin(u)
       THEN NoAccess(u)
       ELSE /\ IF link_id \in Live(start_links, NoStartLink)
               THEN /\ Say(u, "link_details")
                    /\ Shows(u, {Data("admin_edit_link_", link_id),
                                 Data("admin_delete_link_", link_id), "admin_links"})
               ELSE /\ Say(u, "link_not_found")
                    /\ UNCHANGED buttons
            /\ UNCHANGED <<fsm_state, fsm_data, promo_codes, start_links,
                           start_link_clicks>>
    /\ AdminFrame

\* admin_edit_link
admin_edit_link(u, link_id) ==
    /\ Callback(u, Data("admin_edit_link_", link_id))
    /\ IF ~is_admin(u)
       THEN NoAccess(u)
       ELSE /\ IF link_id \in Live(start_links, NoStartLink)
               THEN /\ Say(u, "ask_link_field")
                    /\ Shows(u, {Data("edit_link_slug_", link_id),
                                 Data("edit_link_desc_", link_id), "admin_links"})
               ELSE /\ Say(u, "link_not_found")
                    /\ UNCHANGED buttons
            /\ UNCHANGED <<fsm_state, fsm_data, promo_codes, start_links,
                           start_link_clicks>>
    /\ AdminFrame

\* admin_edit_link_slug
admin_edit_link_slug(u, link_id) ==
    /\ Callback(u, Data("edit_link_slug_", link_id))
    /\ IF ~is_admin(u)
       THEN NoAccess(u)
       ELSE /\ fsm_data' = [fsm_data EXCEPT ![u].link_id = link_id]
            /\ fsm_state' = [fsm_state EXCEPT ![u] = "editing_link_slug"]
            /\ Say(u, "ask_new_slug")
            /\ UNCHANGED <<buttons, promo_codes, start_links, start_link_clicks>>
    /\ AdminFrame

\* save_link_slug: registered for the state alone, with no check of the
\* sender; the exception of the UPDATE is caught; state.clear()
save_link_slug(u, text) ==
    /\ Receives(u)
    /\ fsm_state[u] = "editing_link_slug"
    /\ IF ~is_valid_slug(Lower(Strip(text)))
       THEN /\ Say(u, "invalid_slug")
            /\ UNCHANGED <<fsm_state, fsm_data, start_links>>
       ELSE LET done == update_start_link_slug(start_links, fsm_data[u].link_id,
                                               Lower(Strip(text)))
            IN  /\ start_links' = done.table
                /\ Say(u, IF done.raises THEN "link_update_error" ELSE "link_updated")
                /\ Clear(u)
    /\ UNCHANGED <<buttons, promo_codes, start_link_clicks>>
    /\ AdminFrame

\* admin_edit_link_desc
admin_edit_link_desc(u, link_id) ==
    /\ Callback(u, Data("edit_link_desc_", link_id))
    /\ IF ~is_admin(u)
       THEN NoAccess(u)
       ELSE /\ fsm_data' = [fsm_data EXCEPT ![u].link_id = link_id]
            /\ fsm_state' = [fsm_state EXCEPT ![u] = "editing_link_description"]
            /\ Say(u, "ask_new_description")
            /\ UNCHANGED <<buttons, promo_codes, start_links, start_link_clicks>>
    /\ AdminFrame

\* save_link_description: registered for the state alone, with no check of the
\* sender; state.clear()
save_link_description(u, text) ==
    /\ Receives(u)
    /\ fsm_state[u] = "editing_link_description"
    /\ start_links' =
            update_start_link_description(start_links, fsm_data[u].link_id,
                                          Strip(text)).table
    /\ Say(u, "link_updated")
    /\ Clear(u)
    /\ UNCHANGED <<buttons, promo_codes, start_link_clicks>>
    /\ AdminFrame

\* admin_delete_link
admin_delete_link(u, link_id) ==
    /\ Callback(u, Data("admin_delete_link_", link_id))
    /\ IF ~is_admin(u)
       THEN NoAccess(u)
       ELSE /\ start_links' = delete_start_link(start_links, link_id)
            /\ start_link_clicks' = ClicksCascade(start_link_clicks, link_id)
            /\ Say(u, "link_deleted")
            /\ UNCHANGED <<buttons, fsm_state, fsm_data, promo_codes>>
    /\ AdminFrame

\* ------------------------------------------------- the promo codes
\* The texts an operator sends for a code: a code that is there in another
\* case, a new code, a code that is there with a blank before it
CodeTexts == { <<"v","i","p">>, <<"n","e","w">>, <<" ","S","u","m">> }

DescriptionTexts == { <<"d","4">> }

\* The users that are operators
Operators == {u \in Users : is_admin(u)}

\* The keyboards of the admin panel for the promo codes and the links that are
\* there, and the keyboards of its dialogs
AdminKeyboards ==
    AdminKeyboard
    \cup {"admin_add_promo", "admin_back", "promo_single_yes", "promo_single_no",
          "edit_field_code", "edit_field_description", "edit_field_type",
          "set_single_yes", "set_single_no", "admin_add_link"}
    \cup UNION {{Data("admin_promo_", id), Data("admin_edit_promo_", id),
                 Data("admin_delete_promo_", id)} : id \in 1..Len(InitPromoCodes)}
    \cup UNION {{Data("admin_link_", id), Data("admin_edit_link_", id),
                 Data("admin_delete_link_", id), Data("edit_link_slug_", id),
                 Data("edit_link_desc_", id)} : id \in 1..Len(InitStartLinks)}

\* As InitReturning, after the operators have gone through the admin panel
\* and have left its dialogs
InitOperator ==
    /\ users = Users
    /\ buttons = [u \in Users |-> IF is_admin(u) THEN Keyboards \cup AdminKeyboards
                                                ELSE Keyboards]
    /\ questionnaires = <<>>
    /\ promo_codes = InitPromoCodes
    /\ promo_code_usage = <<>>
    /\ fsm_state = [u \in Users |-> "None"]
    /\ fsm_data = [u \in Users |-> NoData]
    /\ task = [u \in Users |-> IdleTask]
    /\ sweep = IdleSweep
    /\ sent = [q \in 1..MaxQuestionnaires |-> [a \in Admins |-> <<>>]]
    /\ reply = NoReply
    /\ crashes = 0
    /\ completions = [u \in Users |-> 0]
    /\ last_attach = NoAttach
    /\ user_columns = [u \in Users |-> PlainUser]
    /\ link_stats = <<>>
    /\ start_links = InitStartLinks
    /\ start_link_clicks = <<>>
    /\ created = [u \in Users |-> 1]

\* An operator creates promo codes, edits their codes and deletes them.
NextCodes ==
    \/ \E u \in Operators : admin_promo_codes_menu(u)
    \/ \E u \in Operators, promo_id \in 1..MaxPromoCodes : admin_promo_details(u, promo_id)
    \/ \E u \in Operators : admin_add_promo_start(u)
    \/ \E u \in Operators, text \in CodeTexts : admin_add_promo_code(u, text)
    \/ \E u \in Operators, text \in DescriptionTexts : admin_add_promo_description(u, text)
    \/ \E u \in Operators, data \in {"promo_single_yes", "promo_single_no"} :
            admin_add_promo_finish(u, data)
    \/ \E u \in Operators, promo_id \in 1..MaxPromoCodes : admin_edit_promo_start(u, promo_id)
    \/ \E u \in Operators : admin_edit_promo_field(u, "code")
    \/ \E u \in Operators, text \in CodeTexts : admin_edit_promo_save(u, text)
    \/ \E u \in Operators, promo_id \in 1..MaxPromoCodes : admin_delete_promo(u, promo_id)

SpecCodes == InitOperator /\ [][NextCodes]_vars

\* The promo codes of a table are pairwise different ignoring case
UniqueIgnoringCase(codes) ==
    \A i \in Live(codes, NoPromoCode), j \in Live(codes, NoPromoCode) :
        i # j => Upper(codes[i].code) # Upper(codes[j].code)

\* Another row than promo_id holds the text ignoring case
HeldIgnoringCase(codes, text, promo_id) ==
    \E i \in Live(codes, NoPromoCode) :
        i # promo_id /\ Upper(codes[i].code) = Upper(text)

\* C34: the codes of promo_codes are pairwise different ignoring case before
\* and after every step; admin_add_promo_finish for a code another row holds
\* ignoring case, and admin_edit_promo_save of the field code for such a text,
\* answer with the error and leave promo_codes as it was.
C34_CodesUniqueIgnoringCase ==
    [][/\ UniqueIgnoringCase(promo_codes)
       /\ UniqueIgnoringCase(promo_codes')
       /\ \A u \in Users :
            /\ ( /\ is_admin(u)
                 /\ fsm_data[u].promo_code # <<>>
                 /\ HeldIgnoringCase(promo_codes, fsm_data[u].promo_code, 0)
                 /\ \E data \in {"promo_single_yes", "promo_single_no"} :
                        admin_add_promo_finish(u, data) )
                => /\ promo_codes' = promo_codes
                   /\ reply'.kind = "promo_create_error"
            /\ \A text \in CodeTexts :
                ( /\ is_admin(u)
                  /\ fsm_state[u] = "editing_promo_field"
                  /\ fsm_data[u].editing_field = "code"
                  /\ fsm_data[u].promo_id \in Live(promo_codes, NoPromoCode)
                  /\ HeldIgnoringCase(promo_codes, Strip(text), fsm_data[u].promo_id)
                  /\ admin_edit_promo_save(u, text) )
                => /\ promo_codes' = promo_codes
                   /\ reply'.kind = "promo_update_error"]_vars

\* A code was created, one was edited to a new text, and the create and the
\* edit to a code that is there in another case were refused
C34_Witness ==
    /\ Len(promo_codes) = 3
    /\ promo_codes[3].code = <<"N","E","W">>
    /\ promo_codes[1].code = <<"V","I","P">>
    /\ reply.kind \in {"promo_create_error", "promo_update_error"}
    /\ \E u \in Users : fsm_state[u] = "None" /\ is_admin(u) /\ reply.user_id = u

\* ------------------------------------------------------- the links
\* The texts an operator sends for a slug: the slug of a link in another case,
\* a new slug, a text that is no slug
SlugTexts == { <<"V","k">>, <<"y","t">>, <<"a","!">> }

\* The handlers of the links of the admin panel, for every user
AdminLinks(u) ==
    \/ admin_links_menu(u)
    \/ admin_add_link_start(u)
    \/ \E text \in SlugTexts : admin_add_link_slug(u, text)
    \/ \E text \in DescriptionTexts : admin_add_link_description(u, text)
    \/ \E link_id \in 1..MaxLinks : admin_link_details(u, link_id)
    \/ \E link_id \in 1..MaxLinks : admin_edit_link(u, link_id)
    \/ \E link_id \in 1..MaxLinks : admin_edit_link_slug(u, link_id)
    \/ \E text \in SlugTexts : save_link_slug(u, text)
    \/ \E link_id \in 1..MaxLinks : admin_edit_link_desc(u, link_id)
    \/ \E text \in DescriptionTexts : save_link_description(u, text)
    \/ \E link_id \in 1..MaxLinks : admin_delete_link(u, link_id)

\* The users follow the links; an operator creates, edits and deletes links.
NextLinks ==
    \/ \E u \in FormUsers, args \in {<<"v","k">>, <<"Y","T">>} :
            cmd_start_payload(u, <<>>, <<"n">>, args)
    \/ \E u \in FormUsers : click_insert(u)
    \/ \E u \in Operators : AdminLinks(u)

SpecLinks == InitOperator /\ [][NextLinks]_vars

\* C35 (as claimed): in every step, every row of start_link_clicks stays as
\* it is and none is removed.
C35_ClicksAppendOnly ==
    [][/\ Len(start_link_clicks') >= Len(start_link_clicks)
       /\ \A i \in 1..Len(start_link_clicks) :
            start_link_clicks'[i] = start_link_clicks[i]]_vars

\* C35 (amended): in every step, a row of start_link_clicks stays as it is, or
\* it is removed in the step that deletes its link; no other step, an update
\* of the link included, changes or removes a click, and every click that is
\* there is a click of a link that is there.
C35_ClicksGoOnlyWithTheirLink ==
    [][/\ Len(start_link_clicks') >= Len(start_link_clicks)
       /\ \A i \in 1..Len(start_link_clicks) :
            \/ start_link_clicks'[i] = start_link_clicks[i]
            \/ /\ start_link_clicks'[i] = NoClick
               /\ start_links[start_link_clicks[i].start_link_id] # NoStartLink
               /\ start_links'[start_link_clicks[i].start_link_id] = NoStartLink
       /\ \A i \in 1..Len(start_link_clicks') :
            start_link_clicks'[i] # NoClick
                => start_links'[start_link_clicks'[i].start_link_id] # NoStartLink]_vars

\* The click of a link whose slug was updated is there; the click of a link
\* that was deleted is gone
C35_Witness ==
    /\ Len(start_link_clicks) = 2
    /\ \E i \in 1..2 :
            /\ start_link_clicks[i] # NoClick
            /\ start_links[start_link_clicks[i].start_link_id].slug = <<"y","t">>
            /\ start_link_clicks[i].start_link_id = 1
    /\ \E i \in 1..2 : start_link_clicks[i] = NoClick
    /\ start_links[2] = NoStartLink

\* ------------------------------------- promo codes and their redemptions
\* A user redeems codes and has questionnaires with the codes attached, one
\* call after the other; beside it an operator changes the type of the promo
\* codes and deletes promo codes.
NextCatalog ==
    \/ \E u \in FormUsers : Quiet /\ enter_promo_code(u)
    \/ \E u \in FormUsers : Quiet /\ process_promo_code(u, <<"S","U","M">>)
    \/ \E u \in FormUsers : promo_check(u) \/ promo_single_use(u)
                               \/ promo_existing(u) \/ promo_insert(u)
    \/ \E u \in FormUsers : Quiet /\ call_create_questionnaire(u)
    \/ \E u \in FormUsers, q \in 1..MaxQuestionnaires : Quiet /\ call_attach(u, q)
    \/ \E u \in FormUsers : Attach(u)
    \/ \E u \in Operators, promo_id \in 1..MaxPromoCodes : admin_edit_promo_start(u, promo_id)
    \/ \E u \in Operators, data \in {"set_single_yes", "set_single_no"} :
            admin_edit_promo_type(u, data)
    \/ \E u \in Operators, promo_id \in 1..MaxPromoCodes : admin_delete_promo(u, promo_id)

SpecCatalog == InitOperator /\ [][NextCatalog]_vars

\* The usage rows of promo code c with a questionnaire
AttachedRows(usage, c) ==
    {i \in 1..Len(usage) : usage[i].promo_code_id = c /\ usage[i].questionnaire_id # 0}

\* Every single-use promo code of the table has one attached usage row at most
FlaggedAttachedOnce(codes, usage) ==
    \A c \in Live(codes, NoPromoCode) :
        codes[c].is_single_use => Cardinality(AttachedRows(usage, c)) <= 1

\* C38 (as claimed): a step of admin_edit_promo_type from a state in which
\* every single-use promo code has one attached usage row at most leads to such
\* a state.
C38_TypeChangeKeepsAttachedOnce ==
    [][\A u \in Operators, data \in {"set_single_yes", "set_single_no"} :
        ( /\ FlaggedAttachedOnce(promo_codes, promo_code_usage)
          /\ admin_edit_promo_type(u, data) )
            => FlaggedAttachedOnce(promo_codes', promo_code_usage')]_vars

\* The usage rows that refer to promo code c
Referring(usage, c) == {i \in 1..Len(usage) : usage[i].promo_code_id = c}

\* C39: after every step each row of promo_code_usage refers to a promo code
\* that is there; admin_delete_promo for a promo code some usage row refers to
\* answers with the error and leaves promo_codes and promo_code_usage as they
\* were; for a promo code no usage row refers to it removes that row of
\* promo_codes and changes no other row and no usage row.
C39_UsageRefersToACodeThatIsThere ==
    [][/\ \A i \in 1..Len(promo_code_usage') :
            promo_code_usage'[i].promo_code_id \in Live(promo_codes', NoPromoCode)
       /\ \A u \in Operators, promo_id \in 1..MaxPromoCodes :
            admin_delete_promo(u, promo_id)
                => /\ promo_code_usage' = promo_code_usage
                   /\ Len(promo_codes') = Len(promo_codes)
                   /\ \A c \in 1..Len(promo_codes) :
                        c # promo_id => promo_codes'[c] = promo_codes[c]
                   /\ IF Referring(promo_code_usage, promo_id) # {}
                      THEN /\ promo_codes' = promo_codes
                           /\ reply'.kind = "promo_delete_error"
                      ELSE /\ promo_id \notin Live(promo_codes', NoPromoCode)
                           /\ reply'.kind = "promo_deleted"]_vars

\* The delete of a promo code with a usage row was refused, and the promo code
\* with none was deleted
C39_Witness ==
    /\ promo_codes[1] = NoPromoCode
    /\ promo_codes[2] # NoPromoCode
    /\ Referring(promo_code_usage, 2) # {}
    /\ reply.kind = "promo_delete_error"

\* ------------------------------------------- users that are no operators
\* class AdminStates
AdminStates ==
    {"managing_promo_codes", "adding_promo_code", "adding_promo_description",
     "adding_promo_type", "editing_promo_code", "editing_promo_field",
     "deleting_promo_code", "managing_links", "adding_link_slug",
     "adding_link_description", "editing_link_slug", "editing_link_description"}

\* A callback query of user u reaches a handler of the admin panel that opens a
\* dialog
AdminDialog(u) ==
    \/ admin_add_promo_start(u)
    \/ admin_edit_promo_start(u, 2)
    \/ admin_edit_promo_field(u, "code")
    \/ admin_add_link_start(u)
    \/ admin_edit_link_slug(u, 1)
    \/ admin_edit_link_desc(u, 1)

\* A text of user u reaches a handler registered for a state of the admin
\* panel
AdminText(u) ==
    \/ admin_add_promo_code(u, <<"n","e","w">>)
    \/ admin_add_promo_description(u, <<"d","4">>)
    \/ admin_edit_promo_save(u, <<"n","e","w">>)
    \/ admin_add_link_slug(u, <<"y","t">>)
    \/ admin_add_link_description(u, <<"d","4">>)
    \/ save_link_slug(u, <<"y","t">>)
    \/ save_link_description(u, <<"d","4">>)

\* A callback query of user u reaches a handler of the admin panel that writes
\* a table at once
AdminWrite(u) ==
    \/ \E data \in {"promo_single_yes", "promo_single_no"} : admin_add_promo_finish(u, data)
    \/ \E promo_id \in 1..2 : admin_delete_promo(u, promo_id)
    \/ \E data \in {"set_single_yes", "set_single_no"} : admin_edit_promo_type(u, data)
    \/ admin_delete_link(u, 1)

\* An update of user u reaches a handler of the bot outside the dialogs: the
\* command /admin, the form, the promo code, a text in no state
UserSession(u) ==
    \/ admin_panel(u)
    \/ start_questionnaire(u)
    \/ process_gender(u, "gender_male")
    \/ enter_promo_code(u)
    \/ unhandled_message(u, <<"n","e","w">>)

\* An operator goes through the dialogs of the admin panel.  A user that is no
\* operator sends every update of the admin panel in every state of its
\* session.
NextGuard ==
    \/ \E u \in Users : AdminDialog(u)
    \/ \E u \in Users : AdminText(u)
    \/ \E u \in Users \ Operators : AdminWrite(u)
    \/ \E u \in Users \ Operators : UserSession(u)

SpecGuard == InitOperator /\ [][NextGuard]_vars

\* C40: a step of a handler for an update of a user that is not in ADMIN_IDS
\* leaves promo_codes, start_links and start_link_clicks as they were, in
\* whatever state its session is, and the session of such a user is in none of
\* the states of the admin panel, for which the handlers with no check of the
\* sender are registered.
C40_OnlyOperatorsChangeCodesAndLinks ==
    [][\A u \in Users \ Admins :
        /\ fsm_state[u] \notin AdminStates
        /\ fsm_state'[u] \notin AdminStates
        /\ (AdminDialog(u) \/ AdminText(u) \/ AdminWrite(u) \/ UserSession(u))
            => /\ promo_codes' = promo_codes
               /\ start_links' = start_links
               /\ start_link_clicks' = start_link_clicks]_vars

\* A user that is no operator was refused while its session waits for an age,
\* and an operator is in the dialog that waits for the code of a new promo code
C40_Witness ==
    \E u \in Users \ Admins, a \in Users \cap Admins :
        /\ fsm_state[u] = "waiting_age"
        /\ reply = [user_id |-> u, kind |-> "no_access", description |-> <<>>]
        /\ fsm_state[a] = "adding_promo_code"
        /\ Len(start_links) = 2

====
